---------------------------- MODULE Spec2Model ----------------------------
(***************************************************************************)
(* Fuel/cargo tankering optimizer (src/src/optimization, src/src/models).  *)
(*                                                                         *)
(* Number model.  The program computes in binary floating point; the model *)
(* computes in fixed point.  A mass is an integer number of ticks, Units   *)
(* ticks to the kilogram, and an amount of money an integer number of      *)
(* ticks, Units ticks to the dollar.  A price, rate, percentage, density   *)
(* or burn factor is the numerator of a fraction over a fixed denominator  *)
(* (PriceDen, PctDen, DensDen, BurnDen).  A product mass * fraction is     *)
(* MulDiv, which rounds toward minus infinity to a whole tick.  The small  *)
(* scenarios of Init are chosen so that every product of the constraint    *)
(* and linear-programming code is exact; the grid of np.linspace and the   *)
(* A330 scenario round to 1/Units kg.                                      *)
(***************************************************************************)
EXTENDS Integers, Sequences, FiniteSets, TLC

Units    == 2^3 * 5      \* ticks per kg and per USD
PriceDen == 10^4         \* prices and rates are n / 10^4 USD
PctDen   == 10^2         \* contingency_fuel_pct is n / 10^2
DensDen  == 10^3         \* fuel_density is n / 10^3 kg per liter
BurnDen  == 10^4         \* additional_burn_factor is n / 10^4

\* Python's None for the Optional[float] fields of Route.
None == -1

\* floor(x * n / d) for d > 0, without forming x * n.
MulDiv(x, n, d) ==
    IF n >= 0
    THEN (x \div d) * n + ((x % d) * n) \div d
    ELSE -((x \div d) * (-n) + ((x % d) * (-n)) \div d)

Min2(a, b) == IF a <= b THEN a ELSE b
Max2(a, b) == IF a >= b THEN a ELSE b

---------------------------------------------------------------------------
(* src/src/models/aircraft.py *)

\* Aircraft.dom
dom(ac) == ac.owe + ac.variable_load

\* Aircraft.calculate_zfm
calculate_zfm(ac, pax, cargo_weight) ==
    dom(ac) + (pax * ac.std_pax_weight) + cargo_weight

\* Aircraft.calculate_tom
calculate_tom(ac, pax, cargo_weight, total_fuel) ==
    calculate_zfm(ac, pax, cargo_weight) + total_fuel

\* Aircraft.calculate_additional_burn
calculate_additional_burn(ac, extra_weight, distance) ==
    MulDiv(extra_weight, ac.additional_burn_factor * distance, BurnDen)

\* Variant of get_limiting_tom that names the last ceiling at the minimum.
get_limiting_tom_last(ac, required_fuel, trip_fuel) ==
    IF ac.mlw + trip_fuel <= ac.mtow /\ ac.mlw + trip_fuel <= ac.mzfw + required_fuel
    THEN <<ac.mlw + trip_fuel, "MLW+TripFuel">>
    ELSE IF ac.mzfw + required_fuel <= ac.mtow
    THEN <<ac.mzfw + required_fuel, "MZFW+Fuel">>
    ELSE <<ac.mtow, "MTOW">>

\* Aircraft.get_limiting_tom: limits.index(min(limits)) is the first minimum.
get_limiting_tom(ac, required_fuel, trip_fuel) ==
    LET mtow_limit == ac.mtow
        mzfw_limit == ac.mzfw + required_fuel
        mlw_limit  == ac.mlw + trip_fuel
        limiting_tom == Min2(mtow_limit, Min2(mzfw_limit, mlw_limit))
    IN  IF mtow_limit = limiting_tom THEN <<limiting_tom, "MTOW">>
        ELSE IF mzfw_limit = limiting_tom THEN <<limiting_tom, "MZFW+Fuel">>
        ELSE <<limiting_tom, "MLW+TripFuel">>

\* Aircraft.create_a330_203
create_a330_203 ==
    [ owe |-> 120310 * Units, variable_load |-> 0,
      mtow |-> 233000 * Units, mlw |-> 182000 * Units,
      mzfw |-> 170000 * Units, fuel_capacity |-> 109186 * Units,
      fuel_density |-> 785, std_pax_weight |-> 102 * Units,
      additional_burn_factor |-> 1 ]

---------------------------------------------------------------------------
(* src/src/models/route.py *)

\* Route.contingency_fuel
contingency_fuel(rt) == MulDiv(rt.min_trip_fuel, rt.contingency_fuel_pct, PctDen)

\* Route.total_min_fuel
total_min_fuel(rt) == rt.min_trip_fuel + contingency_fuel(rt) + rt.reserve_fuel

\* Route.create_mle_tfu
create_mle_tfu ==
    [ distance |-> 2662, min_trip_fuel |-> 32841 * Units,
      contingency_fuel_pct |-> 5, reserve_fuel |-> 2500 * Units,
      fuel_price_origin |-> 6875, fuel_price_dest |-> 9974,
      cargo_revenue_rate |-> 26000 ]

---------------------------------------------------------------------------
(* src/src/models/economics.py *)

\* Variant of calculate_tankering_savings with the two prices exchanged.
calculate_tankering_savings_swapped(uplifted_fuel, price_origin, price_destination, fuel_density, additional_burn) ==
    MulDiv(MulDiv(uplifted_fuel - additional_burn, DensDen, fuel_density),
           price_origin, PriceDen)
        - MulDiv(MulDiv(uplifted_fuel, DensDen, fuel_density),
                 price_destination, PriceDen)

\* Economics.calculate_tankering_savings
calculate_tankering_savings(uplifted_fuel, price_origin, price_destination, fuel_density, additional_burn) ==
    LET uplifted_fuel_liters == MulDiv(uplifted_fuel, DensDen, fuel_density)
        cost_at_origin == MulDiv(uplifted_fuel_liters, price_origin, PriceDen)
        effective_tankered_fuel == uplifted_fuel - additional_burn
        effective_tankered_fuel_liters ==
            MulDiv(effective_tankered_fuel, DensDen, fuel_density)
        value_at_destination ==
            MulDiv(effective_tankered_fuel_liters, price_destination, PriceDen)
    IN  value_at_destination - cost_at_origin

\* Economics.calculate_tankering_factor: the quotient price_destination /
\* price_origin, kept as <<numerator, denominator>>.
calculate_tankering_factor(price_origin, price_destination) ==
    <<price_destination, price_origin>>

\* Economics.calculate_cargo_revenue
calculate_cargo_revenue(cargo_weight, rate_per_kg) ==
    MulDiv(cargo_weight, rate_per_kg, PriceDen)

\* Economics.calculate_total_profit
calculate_total_profit(cargo_weight, cargo_rate, uplifted_fuel, price_origin, price_destination, fuel_density, additional_burn) ==
    LET cargo_revenue == calculate_cargo_revenue(cargo_weight, cargo_rate)
        tankering_savings ==
            calculate_tankering_savings(uplifted_fuel, price_origin,
                price_destination, fuel_density, additional_burn)
        additional_burn_cost ==
            MulDiv(MulDiv(additional_burn, DensDen, fuel_density),
                   price_origin, PriceDen)
    IN  [ cargo_revenue |-> cargo_revenue,
          tankering_savings |-> tankering_savings,
          additional_burn_cost |-> additional_burn_cost,
          total_profit |-> cargo_revenue + tankering_savings - additional_burn_cost ]

---------------------------------------------------------------------------
(* src/src/optimization/constraints.py: OptimizationConstraints.  cs is    *)
(* the constraints object: [aircraft, route, pax_count, user_overrides].   *)

OverrideKeys == {"regulated_mtow", "regulated_mlw", "actual_zfw",
                 "block_fuel", "taxi_fuel", "cargo_revenue_rate"}

\* dict.get(key, default)
Get(d, key, default) == IF key \in DOMAIN d THEN d[key] ELSE default

\* OptimizationConstraints.mtow / .mlw (properties)
effective_mtow(cs) == Get(cs.user_overrides, "regulated_mtow", cs.aircraft.mtow)
effective_mlw(cs)  == Get(cs.user_overrides, "regulated_mlw", cs.aircraft.mlw)

\* Variant of max_cargo_weight that always starts from the aircraft's MZFW
\* and does not stop at zero.
max_cargo_weight_plain(cs) ==
    cs.aircraft.mzfw - dom(cs.aircraft) - cs.pax_count * cs.aircraft.std_pax_weight

\* OptimizationConstraints.max_cargo_weight; pax_weight is set in __init__.
max_cargo_weight(cs) ==
    LET pax_weight == cs.pax_count * cs.aircraft.std_pax_weight
        max_cargo ==
            IF "actual_zfw" \in DOMAIN cs.user_overrides
            THEN cs.user_overrides["actual_zfw"] - dom(cs.aircraft) - pax_weight
            ELSE cs.aircraft.mzfw - dom(cs.aircraft) - pax_weight
    IN  Max2(0, max_cargo)

\* OptimizationConstraints.max_fuel_capacity
max_fuel_capacity(cs) ==
    IF "block_fuel" \in DOMAIN cs.user_overrides
    THEN cs.user_overrides["block_fuel"]
    ELSE cs.aircraft.fuel_capacity

\* OptimizationConstraints.calc_trip_fuel
calc_trip_fuel(cs, extra_weight) ==
    LET base_trip_fuel == cs.route.min_trip_fuel
        additional_burn ==
            MulDiv(extra_weight,
                   cs.aircraft.additional_burn_factor * cs.route.distance, BurnDen)
    IN  base_trip_fuel + additional_burn

\* OptimizationConstraints.calc_total_min_fuel
calc_total_min_fuel(cs, trip_fuel) ==
    LET contingency == MulDiv(trip_fuel, cs.route.contingency_fuel_pct, PctDen)
    IN  trip_fuel + contingency + cs.route.reserve_fuel

\* The four check_*_constraint methods return <<satisfied, violation>>.
check_mtow_constraint(cs, cargo, total_fuel) ==
    LET tom == calculate_tom(cs.aircraft, cs.pax_count, cargo, total_fuel)
        violation == tom - effective_mtow(cs)
    IN  <<violation <= 0, violation>>

check_mlw_constraint(cs, cargo, total_fuel, trip_fuel) ==
    LET landing_mass ==
            calculate_tom(cs.aircraft, cs.pax_count, cargo, total_fuel) - trip_fuel
        violation == landing_mass - effective_mlw(cs)
    IN  <<violation <= 0, violation>>

\* Variant of check_mzfw_constraint that passes every load.
check_mzfw_always(cs, cargo) == <<TRUE, 0>>

check_mzfw_constraint(cs, cargo) ==
    LET zfm == calculate_zfm(cs.aircraft, cs.pax_count, cargo)
        violation == zfm - cs.aircraft.mzfw
    IN  <<violation <= 0, violation>>

check_fuel_capacity_constraint(cs, total_fuel) ==
    LET max_capacity == max_fuel_capacity(cs)
        violation == total_fuel - max_capacity
    IN  <<violation <= 0, violation>>

ViolationKeys == {"mtow", "mlw", "mzfw", "fuel_capacity"}

\* Variant of ViolationMap that stores the differences as they are.
ViolationMapRaw(mtow_v, mlw_v, mzfw_v, fuel_v) ==
    [ k \in {"mtow", "mlw", "mzfw", "fuel_capacity"} |->
        CASE k = "mtow" -> mtow_v
          [] k = "mlw"  -> mlw_v
          [] k = "mzfw" -> mzfw_v
          [] OTHER      -> fuel_v ]

\* The dict validate_solution stores in self.violations.
ViolationMap(mtow_v, mlw_v, mzfw_v, fuel_v) ==
    [ k \in ViolationKeys |->
        CASE k = "mtow" -> IF mtow_v > 0 THEN mtow_v ELSE 0
          [] k = "mlw"  -> IF mlw_v > 0 THEN mlw_v ELSE 0
          [] k = "mzfw" -> IF mzfw_v > 0 THEN mzfw_v ELSE 0
          [] OTHER      -> IF fuel_v > 0 THEN fuel_v ELSE 0 ]

\* The empty dict {}.
EmptyDict == [ k \in {} |-> 0 ]

\* OptimizationConstraints.validate_solution
validate_solution(cs, cargo, extra_fuel) ==
    LET extra_weight == cargo + extra_fuel
        trip_fuel == calc_trip_fuel(cs, extra_weight)
        min_required_fuel == calc_total_min_fuel(cs, trip_fuel)
        total_fuel == min_required_fuel + extra_fuel
        mtow_c == check_mtow_constraint(cs, cargo, total_fuel)
        mlw_c  == check_mlw_constraint(cs, cargo, total_fuel, trip_fuel)
        mzfw_c == check_mzfw_constraint(cs, cargo)
        fuel_c == check_fuel_capacity_constraint(cs, total_fuel)
    IN  [ valid |-> mtow_c[1] /\ mlw_c[1] /\ mzfw_c[1] /\ fuel_c[1],
          violations |-> ViolationMap(mtow_c[2], mlw_c[2], mzfw_c[2], fuel_c[2]),
          trip_fuel |-> trip_fuel,
          min_required_fuel |-> min_required_fuel,
          total_fuel |-> total_fuel,
          tom |-> calculate_tom(cs.aircraft, cs.pax_count, cargo, total_fuel),
          zfm |-> calculate_zfm(cs.aircraft, cs.pax_count, cargo),
          lm |-> calculate_tom(cs.aircraft, cs.pax_count, cargo, total_fuel)
                   - trip_fuel ]

\* Variant of AssignViolations that overwrites the dict in place: every
\* result that refers to the dict sees the new entries.
AssignViolationsInPlace(held, old, fresh) ==
    [ k \in DOMAIN held |->
        IF held[k].violations = old /\ old # EmptyDict
        THEN [ held[k] EXCEPT !.violations = fresh ]
        ELSE held[k] ]

\* validate_solution: "self.violations = {...}".  The statement binds the
\* field to a new dict; held is the results handed out so far (key ->
\* result), old the dict the field referred to and fresh the new one.  The
\* value is held after the statement: the old dict, which the results
\* handed out earlier may refer to, is left as it was.
AssignViolations(held, old, fresh) == held

---------------------------------------------------------------------------
(* src/src/optimization/optimizer.py.  o is the Optimizer object:          *)
(* [aircraft, route, pax_count, user_overrides, constraints].              *)

\* An OptimizationResult with every numeric field 0 (the ERROR returns).
ErrorResult(limiting_factor, status) ==
    [ optimal_cargo |-> 0, optimal_tankering |-> 0, total_fuel |-> 0,
      trip_fuel |-> 0, total_profit |-> 0, cargo_revenue |-> 0,
      fuel_savings |-> 0, additional_burn |-> 0, tom |-> 0, zfm |-> 0,
      lm |-> 0, constraints_violated |-> FALSE, violations |-> EmptyDict,
      limiting_factor |-> limiting_factor, status |-> status ]

\* Variant of MissingFuelPrice that looks at the origin price only.
MissingOriginPriceOnly(o) == o.route.fuel_price_origin = None

\* The two checks that open optimize_linear and optimize_grid_search.
MissingFuelPrice(o) ==
    o.route.fuel_price_origin = None \/ o.route.fuel_price_dest = None

\* Variant of MissingCargoRate without the test.
CargoRateNeverMissing(o) == FALSE

MissingCargoRate(o) == o.route.cargo_revenue_rate = None

pax_weight_of(o) == o.pax_count * o.aircraft.std_pax_weight

\* optimize_linear: upper bound of the extra_fuel variable.
max_extra_fuel_linear(o) ==
    LET min_fuel_req == total_min_fuel(o.route)
    IN  Min2(o.aircraft.fuel_capacity - min_fuel_req,
             o.aircraft.mtow - dom(o.aircraft) - pax_weight_of(o)
                - max_cargo_weight(o.constraints) - min_fuel_req)

\* optimize_grid_search: upper end of the fuel grid.
max_extra_fuel_grid(o) ==
    LET min_fuel_req == total_min_fuel(o.route)
    IN  Min2(o.aircraft.fuel_capacity - min_fuel_req,
             o.aircraft.mtow - dom(o.aircraft) - pax_weight_of(o) - min_fuel_req)

\* burn_factor = additional_burn_factor * distance, over BurnDen.
burn_factor(o) == o.aircraft.additional_burn_factor * o.route.distance

\* The objective of the linear program at (cargo, extra_fuel).
LPObjective(o, cargo, extra_fuel) ==
    LET cargo_revenue == MulDiv(cargo, o.route.cargo_revenue_rate, PriceDen)
        burned == MulDiv(cargo + extra_fuel, burn_factor(o), BurnDen)
        liters == MulDiv(extra_fuel - burned, DensDen, o.aircraft.fuel_density)
        fuel_savings ==
            MulDiv(liters, o.route.fuel_price_dest - o.route.fuel_price_origin,
                   PriceDen)
    IN  cargo_revenue + fuel_savings

\* The variable bounds and the four constraints of the linear program.
LPFeasible(o, cargo, extra_fuel) ==
    LET min_fuel_req == total_min_fuel(o.route)
        total_fuel == min_fuel_req + extra_fuel
        total_weight == dom(o.aircraft) + pax_weight_of(o) + cargo + total_fuel
        zero_fuel_weight == dom(o.aircraft) + pax_weight_of(o) + cargo
        trip_fuel_base == o.route.min_trip_fuel
        trip_fuel_additional == MulDiv(cargo + extra_fuel, burn_factor(o), BurnDen)
        landing_weight == total_weight - (trip_fuel_base + trip_fuel_additional)
    IN  /\ 0 <= cargo /\ cargo <= max_cargo_weight(o.constraints)
        /\ 0 <= extra_fuel /\ extra_fuel <= max_extra_fuel_linear(o)
        /\ total_weight <= o.aircraft.mtow
        /\ zero_fuel_weight <= o.aircraft.mzfw
        /\ landing_weight <= o.aircraft.mlw
        /\ total_fuel <= o.aircraft.fuel_capacity

(***************************************************************************)
(* prob.solve: the solver is a library; it is modelled by its contract.    *)
(* The program has two bounded variables, so it is never unbounded, and an *)
(* optimum is attained at a vertex of the feasible polygon.  Every edge is *)
(* cargo = k, extra_fuel = k or cargo + extra_fuel = k (the burn factor of *)
(* every scenario is below 1, which keeps the MLW edge in that shape), so  *)
(* the vertices are among LPCandidates.  LPSolve is the set of optimal     *)
(* vertices: empty when the status is not "Optimal", and the solver may    *)
(* return any of them when several tie.                                    *)
(***************************************************************************)
LPCandidates(o) ==
    LET base == dom(o.aircraft) + pax_weight_of(o)
        mfr  == total_min_fuel(o.route)
        Cs == {0, max_cargo_weight(o.constraints), o.aircraft.mzfw - base}
        Es == {0, max_extra_fuel_linear(o), o.aircraft.fuel_capacity - mfr}
        Ts == {o.aircraft.mtow - base - mfr}
              \cup (IF burn_factor(o) < BurnDen
                    THEN {MulDiv(o.aircraft.mlw - base - mfr + o.route.min_trip_fuel,
                                 BurnDen, BurnDen - burn_factor(o))}
                    ELSE {})
    IN  (Cs \X Es)
        \cup {<<c, t - c>> : c \in Cs, t \in Ts}
        \cup {<<t - e, e>> : e \in Es, t \in Ts}

LPSolve(o) ==
    LET feasible == {v \in LPCandidates(o) : LPFeasible(o, v[1], v[2])}
    IN  {v \in feasible :
            \A w \in feasible :
                LPObjective(o, w[1], w[2]) <= LPObjective(o, v[1], v[2])}

\* optimize_linear after the solve: the result built from the solver's point.
LinearResult(o, optimal_cargo, optimal_tankering) ==
    LET validation == validate_solution(o.constraints, optimal_cargo, optimal_tankering)
        trip_fuel_actual == validation.trip_fuel
        additional_burn ==
            calculate_additional_burn(o.aircraft,
                optimal_cargo + optimal_tankering, o.route.distance)
        cargo_revenue_actual ==
            MulDiv(optimal_cargo, o.route.cargo_revenue_rate, PriceDen)
        tankering_savings ==
            calculate_tankering_savings(optimal_tankering,
                o.route.fuel_price_origin, o.route.fuel_price_dest,
                o.aircraft.fuel_density, additional_burn)
        total_profit == cargo_revenue_actual + tankering_savings
        limiting ==
            get_limiting_tom(o.aircraft,
                validation.min_required_fuel + optimal_tankering, trip_fuel_actual)
    IN  [ optimal_cargo |-> optimal_cargo,
          optimal_tankering |-> optimal_tankering,
          total_fuel |-> validation.total_fuel,
          trip_fuel |-> trip_fuel_actual,
          total_profit |-> total_profit,
          cargo_revenue |-> cargo_revenue_actual,
          fuel_savings |-> tankering_savings,
          additional_burn |->
              MulDiv(optimal_cargo + optimal_tankering, burn_factor(o), BurnDen),
          tom |-> validation.tom, zfm |-> validation.zfm, lm |-> validation.lm,
          constraints_violated |-> ~validation.valid,
          violations |-> validation.violations,
          limiting_factor |-> limiting[2],
          status |-> "Optimal solution found" ]

\* Optimizer.optimize_linear: the set of results it can return.
optimize_linear(o) ==
    IF MissingFuelPrice(o)
    THEN {ErrorResult("Missing fuel price data", "ERROR: Missing fuel price data")}
    ELSE IF MissingCargoRate(o)
    THEN {ErrorResult("Missing cargo revenue data",
                      "ERROR: Missing cargo revenue data")}
    ELSE IF LPSolve(o) = {}
    THEN {ErrorResult("No optimal solution found", "ERROR: Infeasible")}
    ELSE {LinearResult(o, v[1], v[2]) : v \in LPSolve(o)}

\* The default cargo_steps and fuel_steps of optimize_grid_search.
cargo_steps == 20
fuel_steps  == 20

\* np.linspace(0, stop, num)[i] = i * (stop / (num - 1)), the last one stop.
linspace(stop, num, i) == MulDiv(stop, i, num - 1)

\* Variant of GridCompare that also replaces the best point on equal profit.
GridCompareLast(o, best, cargo_val, fuel_val, validation, add_burn, econ_calc) ==
    IF ~validation.valid THEN best
    ELSE IF best # << >> /\ ~(econ_calc.total_profit >= best[1].total_profit)
    THEN best
    ELSE << [ optimal_cargo |-> cargo_val,
              optimal_tankering |-> fuel_val,
              total_fuel |-> validation.total_fuel,
              trip_fuel |-> validation.trip_fuel,
              total_profit |-> econ_calc.total_profit,
              cargo_revenue |-> econ_calc.cargo_revenue,
              fuel_savings |-> econ_calc.tankering_savings,
              additional_burn |-> add_burn,
              tom |-> validation.tom, zfm |-> validation.zfm,
              lm |-> validation.lm,
              constraints_violated |-> FALSE,
              violations |-> EmptyDict,
              limiting_factor |->
                  get_limiting_tom(o.aircraft,
                      validation.min_required_fuel + fuel_val,
                      validation.trip_fuel)[2],
              status |-> "Optimal solution found" ] >>

\* Variant of GridCompare that never records a point.
GridCompareNever(o, best, cargo_val, fuel_val, validation, add_burn, econ_calc) == best

\* optimize_grid_search, "if validation['valid']:" and what follows, with
\* the values the loop body has computed: validation, add_burn, econ_calc.
\* best is << >> for best_solution = None, else << best_solution >>.
GridCompare(o, best, cargo_val, fuel_val, validation, add_burn, econ_calc) ==
    IF ~validation.valid THEN best
    ELSE IF best # << >> /\ ~(econ_calc.total_profit > best[1].total_profit)
    THEN best
    ELSE << [ optimal_cargo |-> cargo_val,
              optimal_tankering |-> fuel_val,
              total_fuel |-> validation.total_fuel,
              trip_fuel |-> validation.trip_fuel,
              total_profit |-> econ_calc.total_profit,
              cargo_revenue |-> econ_calc.cargo_revenue,
              fuel_savings |-> econ_calc.tankering_savings,
              additional_burn |-> add_burn,
              tom |-> validation.tom, zfm |-> validation.zfm,
              lm |-> validation.lm,
              constraints_violated |-> FALSE,
              violations |-> EmptyDict,
              limiting_factor |->
                  get_limiting_tom(o.aircraft,
                      validation.min_required_fuel + fuel_val,
                      validation.trip_fuel)[2],
              status |-> "Optimal solution found" ] >>

\* The body of the two loops of optimize_grid_search at one grid point.
GridPoint(o, best, cargo_val, fuel_val) ==
    GridCompare(o, best, cargo_val, fuel_val,
        validate_solution(o.constraints, cargo_val, fuel_val),
        calculate_additional_burn(o.aircraft, cargo_val + fuel_val, o.route.distance),
        calculate_total_profit(cargo_val, o.route.cargo_revenue_rate, fuel_val,
            o.route.fuel_price_origin, o.route.fuel_price_dest,
            o.aircraft.fuel_density,
            calculate_additional_burn(o.aircraft, cargo_val + fuel_val,
                                      o.route.distance)))

\* for fuel_val in fuel_values, from position j on.  (The test of best
\* against << >> only makes the evaluation of each iteration eager.)
RECURSIVE GridRow(_, _, _, _, _)
GridRow(o, best, cargo_val, fuel_values, j) ==
    IF j > Len(fuel_values) THEN best
    ELSE IF best = << >>
    THEN GridRow(o, GridPoint(o, << >>, cargo_val, fuel_values[j]),
                 cargo_val, fuel_values, j + 1)
    ELSE GridRow(o, GridPoint(o, best, cargo_val, fuel_values[j]),
                 cargo_val, fuel_values, j + 1)

\* for cargo_val in cargo_values, from position i on.
RECURSIVE GridRows(_, _, _, _, _)
GridRows(o, best, cargo_values, fuel_values, i) ==
    IF i > Len(cargo_values) THEN best
    ELSE IF best = << >>
    THEN GridRows(o, GridRow(o, << >>, cargo_values[i], fuel_values, 1),
                  cargo_values, fuel_values, i + 1)
    ELSE GridRows(o, GridRow(o, best, cargo_values[i], fuel_values, 1),
                  cargo_values, fuel_values, i + 1)

\* Optimizer.optimize_grid_search
optimize_grid_search(o, ncargo, nfuel) ==
    IF MissingFuelPrice(o)
    THEN ErrorResult("Missing fuel price data", "ERROR: Missing fuel price data")
    ELSE IF MissingCargoRate(o)
    THEN ErrorResult("Missing cargo revenue data", "ERROR: Missing cargo revenue data")
    ELSE LET max_cargo == max_cargo_weight(o.constraints)
             max_extra_fuel == max_extra_fuel_grid(o)
             cargo_values == [ i \in 1..ncargo |-> linspace(max_cargo, ncargo, i - 1) ]
             fuel_values == [ j \in 1..nfuel |-> linspace(max_extra_fuel, nfuel, j - 1) ]
             best_solution == GridRows(o, << >>, cargo_values, fuel_values, 1)
         IN  IF best_solution = << >>
             THEN ErrorResult("No feasible solution found",
                              "ERROR: No feasible solution found")
             ELSE best_solution[1]

Methods == {"linear", "grid_search"}

\* Variant of CacheLookup that never finds an entry.
CacheLookupNever(c, method) == FALSE

\* optimize: "if method in self.cache".
CacheLookup(c, method) == method \in DOMAIN c

\* Variant of CacheStore that keeps the new entry only.
CacheStoreOnly(c, method, result) == [ k \in {method} |-> result ]

\* optimize: "self.cache[method] = result".
CacheStore(c, method, result) ==
    [ k \in DOMAIN c \cup {method} |-> IF k = method THEN result ELSE c[k] ]

\* The value of self.constraints.violations after a strategy has run with
\* result r: the dict of the last validate_solution call it made, if any.
ViolationsAfter(o, method, r, before) ==
    IF MissingFuelPrice(o) \/ MissingCargoRate(o) THEN before
    ELSE IF method = "linear"
    THEN (IF r.status = "Optimal solution found" THEN r.violations ELSE before)
    ELSE validate_solution(o.constraints,
            linspace(max_cargo_weight(o.constraints), cargo_steps, cargo_steps - 1),
            linspace(max_extra_fuel_grid(o), fuel_steps, fuel_steps - 1)).violations

\* What a strategy can return.
RunStrategy(o, method) ==
    IF method = "linear" THEN optimize_linear(o)
    ELSE {optimize_grid_search(o, cargo_steps, fuel_steps)}

\* Variant of optimize that answers an unknown method with an error result
\* and stores it like any other.
optimize_soft(o, c, method, viol) ==
    IF CacheLookup(c, method)
    THEN {[ raised |-> FALSE, ran |-> FALSE, result |-> c[method],
            cache |-> c, violations |-> viol ]}
    ELSE IF method \notin Methods
    THEN {[ raised |-> FALSE, ran |-> FALSE,
            result |-> ErrorResult("Unknown method", "ERROR: Unknown method"),
            cache |-> CacheStore(c, method,
                         ErrorResult("Unknown method", "ERROR: Unknown method")),
            violations |-> viol ]}
    ELSE {[ raised |-> FALSE, ran |-> TRUE, result |-> r,
            cache |-> CacheStore(c, method, r),
            violations |-> ViolationsAfter(o, method, r, viol) ]
          : r \in RunStrategy(o, method)}

\* Optimizer.optimize with cache c: the set of its outcomes.  raised is the
\* ValueError for an unknown method; ran tells whether a strategy was run.
optimize(o, c, method, viol) ==
    IF CacheLookup(c, method)
    THEN {[ raised |-> FALSE, ran |-> FALSE, result |-> c[method],
            cache |-> c, violations |-> viol ]}
    ELSE IF method \notin Methods
    THEN {[ raised |-> TRUE, ran |-> FALSE, result |-> ErrorResult("", ""),
            cache |-> c, violations |-> viol ]}
    ELSE {[ raised |-> FALSE, ran |-> TRUE, result |-> r,
            cache |-> CacheStore(c, method, r),
            violations |-> ViolationsAfter(o, method, r, viol) ]
          : r \in RunStrategy(o, method)}

\* optimize_for_route: a new Optimizer for the arguments (its route a deep
\* copy when the overrides carry a cargo rate, its cache empty), and optimize.
optimize_for_route(ac, rt, pax, ov, method) ==
    LET self_route ==
            IF "cargo_revenue_rate" \in DOMAIN ov
            THEN [ rt EXCEPT !.cargo_revenue_rate = ov["cargo_revenue_rate"] ]
            ELSE rt
        optimizer ==
            [ aircraft |-> ac, route |-> self_route, pax_count |-> pax,
              user_overrides |-> ov,
              constraints |-> [ aircraft |-> ac, route |-> rt, pax_count |-> pax,
                                user_overrides |-> ov ] ]
    IN  optimize(optimizer, EmptyDict, method, EmptyDict)

---------------------------------------------------------------------------
(* The state machine: one caller, one Optimizer.                           *)

MaxOptimize == 2     \* optimize calls of the caller
MaxMutations == 1    \* writes of the caller to its route object
MaxSweeps == 1       \* sensitivity_analysis calls per thread

VARIABLES
    aircraft,        \* the caller's Aircraft object
    route,           \* the caller's Route object
    own_route,       \* the deep copy __init__ may make of it
    pax_count,
    user_overrides,
    constructed,     \* Optimizer.__init__ has run
    cache,           \* Optimizer.cache
    violations,      \* OptimizationConstraints.violations
    sweep,           \* per thread: the frame of a running sensitivity_analysis
    ret,             \* what the last finished operation returned or raised
    snap,            \* history: self.route when the running sweeps began
    prev,            \* history: method -> last result, since the last mutation
    corrupt,         \* history: a sweep recorded a result of a foreign route
    overlap,         \* history: a sweep began while another was running
    nopt, nmut, nsweep

vars == << aircraft, route, own_route, pax_count, user_overrides, constructed,
           cache, violations, sweep, ret, snap, prev, corrupt, overlap,
           nopt, nmut, nsweep >>

SeqThreads == {1}
Threads == {1, 2}

\* __init__ replaced self.route by a deep copy.
Copied == constructed /\ "cargo_revenue_rate" \in DOMAIN user_overrides

\* Variant of SelfRoute that never refers to the copy.
SelfRouteOfCaller == route

\* Optimizer.route
SelfRoute == IF Copied THEN own_route ELSE route

\* The Optimizer object; its constraints object was given the caller's route.
Opt ==
    [ aircraft |-> aircraft, route |-> SelfRoute, pax_count |-> pax_count,
      user_overrides |-> user_overrides,
      constraints |-> [ aircraft |-> aircraft, route |-> route,
                        pax_count |-> pax_count,
                        user_overrides |-> user_overrides ] ]

NoResult == ErrorResult("", "")

Ret(op, method, raised, ran, result, results) ==
    [ op |-> op, method |-> method, raised |-> raised, ran |-> ran,
      result |-> result, results |-> results ]

IdleFrame ==
    [ pc |-> "idle", parameter |-> "", values |-> << >>, method |-> "",
      idx |-> 0, original_value |-> None, results |-> EmptyDict ]

AllIdle == \A t \in Threads : sweep[t].pc = "idle"

(* Scenarios, in kg and USD. *)
SmallAircraft(burn) ==
    [ owe |-> 10 * Units, variable_load |-> 0, mtow |-> 40 * Units,
      mlw |-> 34 * Units, mzfw |-> 20 * Units, fuel_capacity |-> 30 * Units,
      fuel_density |-> 1000, std_pax_weight |-> 1 * Units,
      additional_burn_factor |-> burn ]

SmallRoute(po, pd, rate) ==
    [ distance |-> 2, min_trip_fuel |-> 8 * Units, contingency_fuel_pct |-> 50,
      reserve_fuel |-> 2 * Units, fuel_price_origin |-> po,
      fuel_price_dest |-> pd, cargo_revenue_rate |-> rate ]

\* A small aircraft whose tanks hold less than the minimum fuel of SmallRoute.
TightAircraft(burn) == [ SmallAircraft(burn) EXCEPT !.fuel_capacity = 12 * Units ]

BurnFactors == {0, 2500}
OriginPrices == {None, 10000}
DestPrices == {None, 5000, 20000}
CargoRates == {None, 0, 30000}

OverrideMaps ==
    { EmptyDict,
      [ k \in {"cargo_revenue_rate"} |-> 20000 ],
      [ k \in {"regulated_mtow"} |-> 30 * Units ],
      [ k \in {"block_fuel"} |-> 12 * Units ],
      [ k \in {"actual_zfw"} |-> 18 * Units ] }

\* <<aircraft, route, pax_count, user_overrides>>
Scenarios ==
    { <<create_a330_203, create_mle_tfu, 237, EmptyDict>> }
    \cup { <<SmallAircraft(b), SmallRoute(po, pd, r), 2, ov>> :
             b \in BurnFactors, po \in OriginPrices, pd \in DestPrices,
             r \in CargoRates,
             ov \in {EmptyDict, [ k \in {"cargo_revenue_rate"} |-> 20000 ]} }
    \cup { <<SmallAircraft(b), SmallRoute(10000, pd, r), px, ov>> :
             b \in BurnFactors, pd \in DestPrices \ {None},
             r \in CargoRates \ {None}, px \in {2, 12}, ov \in OverrideMaps }
    \cup { <<TightAircraft(b), SmallRoute(10000, pd, r), 2, EmptyDict>> :
             b \in BurnFactors, pd \in DestPrices \ {None},
             r \in CargoRates \ {None} }

\* The writes the caller makes to its route object: <<field, value>>.
Mutations == { <<"fuel_price_origin", None>>, <<"cargo_revenue_rate", 10000>> }

\* The sensitivity_analysis calls: <<parameter, values, method>>.
SweepInputs ==
    { <<"fuel_price_origin", << >>, "linear">>,
      <<"fuel_price_dest", <<30000>>, "grid_search">>,
      <<"cargo_revenue_rate", <<10000, 10000>>, "linear">>,
      <<"fuel_price_origin", <<20000, 5000>>, "linear">>,
      <<"payload", <<10000>>, "linear">>,
      <<"payload", << >>, "linear">>,
      <<"fuel_price_dest", <<30000>>, "simplex">> }

SweepParameters == {"fuel_price_origin", "fuel_price_dest", "cargo_revenue_rate"}

InitCommon ==
    /\ cache = EmptyDict
    /\ violations = EmptyDict
    /\ sweep = [ t \in Threads |-> IdleFrame ]
    /\ ret = Ret("none", "", FALSE, FALSE, NoResult, EmptyDict)
    /\ prev = EmptyDict
    /\ corrupt = FALSE
    /\ overlap = FALSE
    /\ nopt = 0 /\ nmut = 0
    /\ nsweep = [ t \in Threads |-> 0 ]

Init ==
    /\ \E sc \in Scenarios :
          /\ aircraft = sc[1]
          /\ route = sc[2]
          /\ own_route = sc[2]
          /\ snap = sc[2]
          /\ pax_count = sc[3]
          /\ user_overrides = sc[4]
    /\ constructed = FALSE
    /\ InitCommon

\* Optimizer.__init__
Construct ==
    /\ ~constructed
    /\ constructed' = TRUE
    /\ own_route' =
          IF "cargo_revenue_rate" \in DOMAIN user_overrides
          THEN [ route EXCEPT !.cargo_revenue_rate =
                                  user_overrides["cargo_revenue_rate"] ]
          ELSE own_route
    /\ cache' = EmptyDict
    /\ violations' = EmptyDict
    /\ ret' = Ret("construct", "", FALSE, FALSE, NoResult, EmptyDict)
    /\ UNCHANGED << aircraft, route, pax_count, user_overrides, sweep, snap,
                    prev, corrupt, overlap, nopt, nmut, nsweep >>

\* The caller calls optimize(method).
Optimize(method) ==
    /\ constructed /\ AllIdle
    /\ nopt < MaxOptimize
    /\ \E out \in optimize(Opt, cache, method, violations) :
          /\ cache' = IF out.ran
                       THEN CacheStore(AssignViolations(cache, violations,
                                                        out.violations),
                                       method, out.result)
                       ELSE out.cache
          /\ violations' = out.violations
          /\ ret' = Ret("optimize", method, out.raised, out.ran, out.result,
                        EmptyDict)
          /\ prev' = IF out.raised THEN prev
                     ELSE CacheStore(prev, method, out.result)
    /\ nopt' = nopt + 1
    /\ UNCHANGED << aircraft, route, own_route, pax_count, user_overrides,
                    constructed, sweep, snap, corrupt, overlap, nmut, nsweep >>

\* The caller calls optimize_for_route(aircraft, route, pax_count,
\* user_overrides, method) before it builds an Optimizer of its own.  The
\* Optimizer of the function is local: nothing of it is left but what it
\* returned or raised.
OptimizeForRoute(method) ==
    /\ ~constructed
    /\ \E out \in optimize_for_route(aircraft, route, pax_count, user_overrides,
                                     method) :
          ret' = Ret("optimize_for_route", method, out.raised, out.ran,
                     out.result, EmptyDict)
    /\ UNCHANGED << aircraft, route, own_route, pax_count, user_overrides,
                    constructed, cache, violations, sweep, snap, prev, corrupt,
                    overlap, nopt, nmut, nsweep >>

\* The caller assigns a field of its own route object.
MutateRoute(field, value) ==
    /\ constructed /\ AllIdle
    /\ nmut < MaxMutations
    /\ route[field] # value
    /\ route' = [ route EXCEPT ![field] = value ]
    /\ prev' = EmptyDict
    /\ ret' = Ret("set_route_field", field, FALSE, FALSE, NoResult, EmptyDict)
    /\ nmut' = nmut + 1
    /\ UNCHANGED << aircraft, own_route, pax_count, user_overrides, constructed,
                    cache, violations, sweep, snap, corrupt, overlap, nopt,
                    nsweep >>

(* sensitivity_analysis, one action per step of its loop.  The frame of    *)
(* thread t is sweep[t]; pc is the statement it is about to execute.       *)

\* results[value] = result
DictSet(d, key, value) ==
    [ k \in DOMAIN d \cup {key} |-> IF k = key THEN value ELSE d[k] ]

\* An assignment self.route.<field> = value: it writes the object self.route
\* refers to, which is the caller's unless __init__ made a copy.
AssignSelfRoute(field, value) ==
    IF Copied
    THEN /\ own_route' = [ own_route EXCEPT ![field] = value ]
         /\ route' = route
    ELSE /\ route' = [ route EXCEPT ![field] = value ]
         /\ own_route' = own_route

\* Variant of RestoreValue that writes the swept value again.
RestoreSwept(f) == f.values[f.idx]

\* The value the "Restore original value" branch writes back.
RestoreValue(f) == f.original_value

\* The call: results = {}, original_value = None.
SAStart(t, inp, concurrent) ==
    /\ constructed
    /\ sweep[t].pc = "idle"
    /\ concurrent \/ AllIdle
    /\ nsweep[t] < MaxSweeps
    /\ sweep' = [ sweep EXCEPT ![t] =
                    [ pc |-> "loop", parameter |-> inp[1], values |-> inp[2],
                      method |-> inp[3], idx |-> 1, original_value |-> None,
                      results |-> EmptyDict ] ]
    /\ nsweep' = [ nsweep EXCEPT ![t] = @ + 1 ]
    /\ snap' = IF AllIdle THEN SelfRoute ELSE snap
    /\ overlap' = (overlap \/ ~AllIdle)
    /\ prev' = EmptyDict
    /\ UNCHANGED << aircraft, route, own_route, pax_count, user_overrides,
                    constructed, cache, violations, ret, corrupt, nopt, nmut >>

\* "for value in values", a known parameter: original_value = self.route.<p>
SASave(t) ==
    LET f == sweep[t] IN
    /\ f.pc = "loop" /\ f.idx <= Len(f.values)
    /\ f.parameter \in SweepParameters
    /\ sweep' = [ sweep EXCEPT ![t].original_value = SelfRoute[f.parameter],
                                ![t].pc = "write" ]
    /\ UNCHANGED << aircraft, route, own_route, pax_count, user_overrides,
                    constructed, cache, violations, ret, snap, prev, corrupt,
                    overlap, nopt, nmut, nsweep >>

\* "for value in values", an unknown parameter: raise ValueError
SAUnknownParameter(t) ==
    LET f == sweep[t] IN
    /\ f.pc = "loop" /\ f.idx <= Len(f.values)
    /\ f.parameter \notin SweepParameters
    /\ sweep' = [ sweep EXCEPT ![t] = IdleFrame ]
    /\ ret' = Ret("sensitivity_analysis", f.parameter, TRUE, FALSE, NoResult,
                  EmptyDict)
    /\ UNCHANGED << aircraft, route, own_route, pax_count, user_overrides,
                    constructed, cache, violations, snap, prev, corrupt,
                    overlap, nopt, nmut, nsweep >>

\* self.route.<p> = value
SAWrite(t) ==
    LET f == sweep[t] IN
    /\ f.pc = "write"
    /\ AssignSelfRoute(f.parameter, f.values[f.idx])
    /\ sweep' = [ sweep EXCEPT ![t].pc = "optimize" ]
    /\ UNCHANGED << aircraft, pax_count, user_overrides, constructed, cache,
                    violations, ret, snap, prev, corrupt, overlap, nopt, nmut,
                    nsweep >>

\* self.cache = {}; result = self.optimize(method); results[value] = result
\* A ValueError of optimize leaves the function at once.
SAOptimize(t) ==
    LET f == sweep[t]
        value == f.values[f.idx]
    IN
    /\ f.pc = "optimize"
    /\ \E out \in optimize(Opt, EmptyDict, f.method, violations) :
          /\ cache' = out.cache
          /\ violations' = out.violations
          /\ IF out.raised
             THEN /\ sweep' = [ sweep EXCEPT ![t] = IdleFrame ]
                  /\ ret' = Ret("sensitivity_analysis", f.parameter, TRUE,
                                FALSE, NoResult, EmptyDict)
             ELSE /\ sweep' = [ sweep EXCEPT
                                  ![t].results = DictSet(f.results, value, out.result),
                                  ![t].pc = "restore" ]
                  /\ ret' = ret
    /\ corrupt' = (corrupt \/ SelfRoute # [ snap EXCEPT ![f.parameter] = value ])
    /\ UNCHANGED << aircraft, route, own_route, pax_count, user_overrides,
                    constructed, snap, prev, overlap, nopt, nmut, nsweep >>

\* self.route.<p> = original_value, and on to the next value
SARestore(t) ==
    LET f == sweep[t] IN
    /\ f.pc = "restore"
    /\ AssignSelfRoute(f.parameter, RestoreValue(f))
    /\ sweep' = [ sweep EXCEPT ![t].idx = f.idx + 1, ![t].pc = "loop" ]
    /\ UNCHANGED << aircraft, pax_count, user_overrides, constructed, cache,
                    violations, ret, snap, prev, corrupt, overlap, nopt, nmut,
                    nsweep >>

\* return results
SAReturn(t) ==
    LET f == sweep[t] IN
    /\ f.pc = "loop" /\ f.idx > Len(f.values)
    /\ sweep' = [ sweep EXCEPT ![t] = IdleFrame ]
    /\ ret' = Ret("sensitivity_analysis", f.parameter, FALSE, FALSE, NoResult,
                  f.results)
    /\ UNCHANGED << aircraft, route, own_route, pax_count, user_overrides,
                    constructed, cache, violations, snap, prev, corrupt,
                    overlap, nopt, nmut, nsweep >>

CallMethods == Methods \cup {"simplex"}

Next ==
    \/ Construct
    \/ \E m \in CallMethods : Optimize(m)
    \/ \E m \in CallMethods : OptimizeForRoute(m)

\* One Optimizer per scenario, and the optimize calls of its caller.
Spec == Init /\ [][Next]_vars

(* The life of one Optimizer: optimize calls, writes of the caller to its  *)
(* route object and sensitivity sweeps, one operation at a time.           *)
LifeScenarios ==
    { <<SmallAircraft(2500), SmallRoute(10000, 20000, 30000), 2, ov>> :
        ov \in {EmptyDict, [ k \in {"cargo_revenue_rate"} |-> 20000 ]} }

InitLife ==
    /\ \E sc \in LifeScenarios :
          /\ aircraft = sc[1]
          /\ route = sc[2]
          /\ own_route = sc[2]
          /\ snap = sc[2]
          /\ pax_count = sc[3]
          /\ user_overrides = sc[4]
    /\ constructed = FALSE
    /\ InitCommon

NextLife ==
    \/ Construct
    \/ \E m \in Methods : Optimize(m)
    \/ \E mu \in Mutations : MutateRoute(mu[1], mu[2])
    \/ \E t \in SeqThreads, inp \in SweepInputs : SAStart(t, inp, FALSE)
    \/ \E t \in SeqThreads :
          \/ SASave(t)
          \/ SAUnknownParameter(t)
          \/ SAWrite(t)
          \/ SAOptimize(t)
          \/ SARestore(t)
          \/ SAReturn(t)

SpecLife == InitLife /\ [][NextLife]_vars

(* Two threads running sensitivity_analysis on one constructed Optimizer,  *)
(* interleaved statement by statement; the calls are well-formed sweeps of *)
(* one value with the linear strategy, on the same field or on two fields. *)
ConcScenarios ==
    { <<SmallAircraft(0), SmallRoute(10000, 20000, 30000), 2, ov>> :
        ov \in {EmptyDict, [ k \in {"cargo_revenue_rate"} |-> 20000 ]} }

ConcSweepInputs ==
    { <<"fuel_price_dest", <<30000>>, "linear">>,
      <<"cargo_revenue_rate", <<10000>>, "linear">> }

InitConc ==
    /\ \E sc \in ConcScenarios :
          /\ aircraft = sc[1]
          /\ route = sc[2]
          /\ own_route =
                IF "cargo_revenue_rate" \in DOMAIN sc[4]
                THEN [ sc[2] EXCEPT !.cargo_revenue_rate = sc[4]["cargo_revenue_rate"] ]
                ELSE sc[2]
          /\ snap = own_route
          /\ pax_count = sc[3]
          /\ user_overrides = sc[4]
    /\ constructed = TRUE
    /\ InitCommon

NextConc ==
    \/ \E t \in Threads, inp \in ConcSweepInputs : SAStart(t, inp, TRUE)
    \/ \E t \in Threads :
          \/ SASave(t)
          \/ SAWrite(t)
          \/ SAOptimize(t)
          \/ SARestore(t)
          \/ SAReturn(t)

SpecConc == InitConc /\ [][NextConc]_vars

---------------------------------------------------------------------------
(* Properties of optimize.                                                 *)

\* The status strings of the results that report an error.
ErrorStatuses ==
    { "ERROR: Missing fuel price data", "ERROR: Missing cargo revenue data",
      "ERROR: Infeasible", "ERROR: No feasible solution found" }

\* optimize(m) has just returned a result.
Returned(m) == ret.op = "optimize" /\ ret.method = m /\ ~ret.raised

\* The default MLE-TFU scenario.
DefaultScenario ==
    /\ aircraft = create_a330_203 /\ route = create_mle_tfu
    /\ pax_count = 237 /\ user_overrides = EmptyDict

\* C1: whenever optimize with strategy linear or grid_search returns a result
\* whose status is not an ERROR, the returned point passes the four checks of
\* validate_solution and the result has constraints_violated = false.
C1_NoViolatedOptimum ==
    \A m \in Methods :
        (Returned(m) /\ ret.result.status \notin ErrorStatuses)
            => /\ ~ret.result.constraints_violated
               /\ validate_solution(Opt.constraints, ret.result.optimal_cargo,
                                    ret.result.optimal_tankering).valid

\* C2: in the default MLE-TFU scenario optimize('linear') returns a non-ERROR
\* result with constraints_violated = false and a limiting factor among MTOW,
\* MZFW+Fuel and MLW+TripFuel.
C2_DefaultLinearFeasible ==
    (DefaultScenario /\ Returned("linear"))
        => /\ ret.result.status \notin ErrorStatuses
           /\ ~ret.result.constraints_violated
           /\ ret.result.limiting_factor \in {"MTOW", "MZFW+Fuel", "MLW+TripFuel"}

Abs(x) == IF x < 0 THEN -x ELSE x

\* The spacing of the default grid of grid search, and the profit tolerance.
CargoGridStep == linspace(max_cargo_weight(Opt.constraints), cargo_steps, 1)
FuelGridStep == linspace(max_extra_fuel_grid(Opt), fuel_steps, 1)
ProfitTolerance == 1 * Units

\* C3: for the same aircraft, route, passenger count and overrides the optima
\* of the linear strategy and of the grid-search strategy differ by at most
\* one grid step in optimal_cargo and in optimal_tankering, and their
\* total_profit values agree within a small tolerance.  (Stated for the
\* inputs whose linear program has a single optimum, so that "the optimum"
\* is one point.)
C3_StrategiesAgree ==
    (/\ DOMAIN cache = Methods
     /\ \A m \in Methods : cache[m].status \notin ErrorStatuses
     /\ Cardinality(LPSolve(Opt)) = 1)
        => LET l == cache["linear"]
               g == cache["grid_search"]
           IN  /\ Abs(l.optimal_cargo - g.optimal_cargo) <= CargoGridStep
               /\ Abs(l.optimal_tankering - g.optimal_tankering) <= FuelGridStep
               /\ Abs(l.total_profit - g.total_profit) <= ProfitTolerance

\* The caller's step is a call optimize(m).
OptimizeStep(m) ==
    nopt' = nopt + 1 /\ ret'.op = "optimize" /\ ret'.method = m

\* C4: with nothing mutated in between, a second call optimize(m) returns
\* exactly the result the first call returned, taken from the cache without
\* running the strategy again (prev holds the results returned since the
\* last mutation).
C4_SecondCallFromCache ==
    [][\A m \in Methods :
          (OptimizeStep(m) /\ m \in DOMAIN prev)
              => (~ret'.raised /\ ~ret'.ran /\ ret'.result = prev[m]
                    /\ cache' = cache)]_vars

\* A second optimize('linear') answered on an unmutated Optimizer.
C4_Witness ==
    /\ Returned("linear") /\ ~ret.ran /\ nopt = 2
    /\ nmut = 0 /\ nsweep[1] = 0
    /\ ret.result.status = "Optimal solution found"

\* No sensitivity_analysis is at its "self.cache = {}" statement.
NoSweepOptimizing == \A t \in Threads : sweep[t].pc # "optimize"

\* C5: the cache is keyed by the strategy name and never invalidated: outside
\* sensitivity_analysis every cached result stays in the cache unchanged,
\* whatever the caller mutates and whichever strategy is optimized, and
\* optimize(m) returns the cached result of m.
C5_CacheNeverInvalidated ==
    [][NoSweepOptimizing
          => \A m \in DOMAIN cache :
                /\ m \in DOMAIN cache' /\ cache'[m] = cache[m]
                /\ OptimizeStep(m) => (~ret'.raised /\ ret'.result = cache[m])]_vars

\* optimize(m) has returned a cached result that a run on the route as
\* mutated since would not return.
C5_Witness ==
    /\ nmut > 0 /\ nsweep[1] = 0 /\ AllIdle
    /\ \E m \in Methods :
          /\ Returned(m) /\ ~ret.ran
          /\ ret.result.status = "Optimal solution found"
          /\ ret.result \notin RunStrategy(Opt, m)

---------------------------------------------------------------------------
(* Properties of sensitivity_analysis.                                     *)

\* sensitivity_analysis has just returned normally.
SweepReturned == ret.op = "sensitivity_analysis" /\ ~ret.raised /\ AllIdle

\* C6: when sensitivity_analysis returns normally, every field of the route
\* holds the value it held before the call.
C6_RouteRestored == SweepReturned => SelfRoute = snap

\* A sweep over two values has returned.
C6_Witness ==
    SweepReturned /\ Cardinality(DOMAIN ret.results) = 2 /\ SelfRoute = snap

\* C7: no Optimizer operation changes a field of the route object supplied
\* by the caller, not even in an intermediate state (only the caller's own
\* assignments, counted by nmut, change it).
C7_CallerRouteUntouched == [][nmut' = nmut => route' = route]_vars

\* C8: two sweeps that run one after the other neither record a result
\* computed under a foreign route nor leave the route changed; interleaved
\* they can do both.
C8_SequentialSweepsClean ==
    ~overlap => (~corrupt /\ (AllIdle => SelfRoute = snap))

\* Two interleaved sweeps have ended: a recorded result was computed under
\* the other sweep's value and the route is not what it was before them.
C8_Witness ==
    /\ overlap /\ AllIdle /\ \A t \in Threads : nsweep[t] = 1
    /\ corrupt /\ SelfRoute # snap

---------------------------------------------------------------------------
(* The precondition checks of the strategies.                              *)

\* Every numeric field of result r is 0.
AllZero(r) ==
    /\ r.optimal_cargo = 0 /\ r.optimal_tankering = 0 /\ r.total_fuel = 0
    /\ r.trip_fuel = 0 /\ r.total_profit = 0 /\ r.cargo_revenue = 0
    /\ r.fuel_savings = 0 /\ r.additional_burn = 0
    /\ r.tom = 0 /\ r.zfm = 0 /\ r.lm = 0

\* The caller has called optimize with one of the two strategies.
Called == ret.op = "optimize" /\ ret.method \in Methods

\* C9: with no fuel price at origin or at destination, optimize with either
\* strategy returns (does not raise) a result with status 'ERROR: Missing
\* fuel price data' and all numeric fields 0, before any solving; also when
\* the cargo revenue rate is missing too.
C9_MissingFuelPrice ==
    (Called /\ (SelfRoute.fuel_price_origin = None
                  \/ SelfRoute.fuel_price_dest = None))
        => /\ ~ret.raised
           /\ ret.result.status = "ERROR: Missing fuel price data"
           /\ AllZero(ret.result)
           /\ violations = EmptyDict

\* Only the destination price is missing, and the cargo revenue rate too.
C9_Witness ==
    /\ Called /\ ret.ran
    /\ SelfRoute.fuel_price_origin # None /\ SelfRoute.fuel_price_dest = None
    /\ SelfRoute.cargo_revenue_rate = None
    /\ ret.result.status = "ERROR: Missing fuel price data"

\* C10: with both fuel prices set and no cargo revenue rate on the route,
\* optimize returns (does not raise) a result with status 'ERROR: Missing
\* cargo revenue data' and all numeric fields 0 when the override map has no
\* cargo_revenue_rate, and a result without this error when it has one.
C10_MissingCargoRate ==
    (/\ Called
     /\ route.fuel_price_origin # None /\ route.fuel_price_dest # None
     /\ route.cargo_revenue_rate = None)
        => /\ ~ret.raised
           /\ IF "cargo_revenue_rate" \in DOMAIN user_overrides
              THEN ret.result.status # "ERROR: Missing cargo revenue data"
              ELSE /\ ret.result.status = "ERROR: Missing cargo revenue data"
                   /\ AllZero(ret.result)

\* A route without a rate is optimised under a cargo_revenue_rate override.
C10_Witness ==
    /\ Called /\ ret.ran
    /\ route.fuel_price_origin # None /\ route.fuel_price_dest # None
    /\ route.cargo_revenue_rate = None
    /\ "cargo_revenue_rate" \in DOMAIN user_overrides
    /\ ret.result.status = "Optimal solution found"
    /\ ret.result.optimal_cargo > 0

---------------------------------------------------------------------------
(* The failure results of the strategies, and unknown names.               *)

\* Both strategies get past their two opening checks.
DataPresent == ~MissingFuelPrice(Opt) /\ ~MissingCargoRate(Opt)

\* C11: when the linear program has no feasible optimum, optimize('linear')
\* returns a result whose status is exactly 'ERROR: No optimal solution
\* found', with all numeric fields 0.
C11_LinearNoOptimumStatus ==
    (Returned("linear") /\ DataPresent /\ LPSolve(Opt) = {})
        => /\ ret.result.status = "ERROR: No optimal solution found"
           /\ AllZero(ret.result)


\* Some point of the grid of optimize_grid_search passes validate_solution.
SomeGridPointValid ==
    \E i \in 0..(cargo_steps - 1), j \in 0..(fuel_steps - 1) :
        validate_solution(Opt.constraints,
            linspace(max_cargo_weight(Opt.constraints), cargo_steps, i),
            linspace(max_extra_fuel_grid(Opt), fuel_steps, j)).valid

\* C12: once its two opening checks have passed, optimize('grid_search')
\* returns a result with status 'Optimal solution found' exactly when some
\* grid point is valid; otherwise the status is exactly 'ERROR: No feasible
\* solution found', every numeric field is 0 and constraints_violated is false.
C12_GridNoFeasiblePoint ==
    (Returned("grid_search") /\ DataPresent)
        => IF SomeGridPointValid
           THEN ret.result.status = "Optimal solution found"
           ELSE /\ ret.result.status = "ERROR: No feasible solution found"
                /\ AllZero(ret.result)
                /\ ~ret.result.constraints_violated

C12_Witness ==
    /\ Returned("grid_search") /\ DataPresent
    /\ ~SomeGridPointValid
    /\ ret.result.status = "ERROR: No feasible solution found"


\* The method names that are not strategies.
UnknownMethods == CallMethods \ Methods

\* A call of optimize_for_route with method m has just ended.
ForRouteStep(m) == ret'.op = "optimize_for_route" /\ ret'.method = m

\* C13: optimize(method) and optimize_for_route(..., method) with a method
\* other than 'linear' and 'grid_search' raise instead of returning a result,
\* and the call leaves the cache as it was.
C13_UnknownMethodFails ==
    [][\A m \in UnknownMethods :
          (OptimizeStep(m) \/ ForRouteStep(m))
              => (ret'.raised /\ cache' = cache)]_vars

\* optimize('simplex') has raised on an Optimizer whose cache holds a result.
C13_Witness ==
    /\ ret.op = "optimize" /\ ret.method \in UnknownMethods /\ ret.raised
    /\ cache # EmptyDict


\* Thread t is inside a sensitivity_analysis call with an unknown parameter.
InUnknownSweep(t) ==
    sweep[t].pc # "idle" /\ sweep[t].parameter \notin SweepParameters

\* C14: a sensitivity_analysis call with a parameter name other than
\* fuel_price_origin, fuel_price_dest and cargo_revenue_rate ends at once
\* with a raised error, whatever the values list, and its step changes no
\* field of either route object and leaves the cache as it was.
C14_UnknownParameterFails ==
    [][\A t \in SeqThreads :
          InUnknownSweep(t)
              => /\ sweep'[t].pc = "idle"
                 /\ ret'.op = "sensitivity_analysis" /\ ret'.raised
                 /\ route' = route /\ own_route' = own_route
                 /\ cache' = cache]_vars


---------------------------------------------------------------------------
(* The program's rounding.  The sums and differences of the mass figures   *)
(* are Python float operations: each result is rounded to the nearest      *)
(* number with a significand of so many bits, ties to even.  The model     *)
(* keeps the tick as the smallest amount and SigBits bits of significand   *)
(* (the program's float has 53), enough to hold every figure of the        *)
(* scenarios to the tick.                                                  *)

SigBits == 20

\* The power of two b with b <= x < 2b, for x >= 1.
RECURSIVE Binade(_)
Binade(x) == IF x < 2 THEN 1 ELSE 2 * Binade(x \div 2)

\* The unit in the last place of a number of magnitude |x|.
Ulp(x) ==
    LET b == Binade(IF x < 0 THEN -x ELSE x)
    IN  IF b < 2^(SigBits - 1) THEN 1 ELSE b \div 2^(SigBits - 1)

\* x >= 0 cut down to a multiple of u.
ChopTo(x, u) == (x \div u) * u

\* x >= 0 to the nearest multiple of u, a tie to the even multiple.
NearestTo(x, u) ==
    IF 2 * (x % u) > u \/ (2 * (x % u) = u /\ (x \div u) % 2 = 1)
    THEN ChopTo(x, u) + u
    ELSE ChopTo(x, u)

\* Variant of RoundFloat that drops the digits beyond the significand.
RoundChopped(x) == IF x < 0 THEN -ChopTo(-x, Ulp(x)) ELSE ChopTo(x, Ulp(x))

\* Round to nearest, ties to even.
RoundFloat(x) == IF x < 0 THEN -NearestTo(-x, Ulp(x)) ELSE NearestTo(x, Ulp(x))

\* a + b and a - b of two floats.
float_add(a, b) == RoundFloat(a + b)
float_sub(a, b) == RoundFloat(a - b)

\* Aircraft.calculate_zfm and Aircraft.calculate_tom as the program rounds
\* them: self.dom + (pax_count * self.std_pax_weight) + cargo_weight, and
\* zfm + total_fuel.
calculate_zfm_float(ac, pax, cargo_weight) ==
    float_add(float_add(float_add(ac.owe, ac.variable_load),
                        RoundFloat(pax * ac.std_pax_weight)),
              RoundFloat(cargo_weight))

calculate_tom_float(ac, pax, cargo_weight, total_fuel) ==
    float_add(calculate_zfm_float(ac, pax, cargo_weight), total_fuel)

\* The mass figures validate_solution returns, as the program rounds them.
\* The fuel figures and the verdict are those of validate_solution above,
\* the fuel figures rounded to a float.
validate_solution_float(cs, cargo, extra_fuel) ==
    LET v == validate_solution(cs, cargo, extra_fuel)
        trip_fuel == RoundFloat(v.trip_fuel)
        total_fuel == RoundFloat(v.total_fuel)
    IN  [ valid |-> v.valid,
          trip_fuel |-> trip_fuel,
          total_fuel |-> total_fuel,
          tom |-> calculate_tom_float(cs.aircraft, cs.pax_count, cargo, total_fuel),
          zfm |-> calculate_zfm_float(cs.aircraft, cs.pax_count, cargo),
          lm |-> float_sub(calculate_tom_float(cs.aircraft, cs.pax_count, cargo,
                                               total_fuel),
                           trip_fuel) ]


---------------------------------------------------------------------------
(* The functions of the models and of the constraints object, called one   *)
(* at a time on a constructed Optimizer's constraints object.              *)

\* OptimizationConstraints.get_limiting_tom
constraints_get_limiting_tom(cs, required_fuel, trip_fuel) ==
    get_limiting_tom(cs.aircraft, required_fuel, trip_fuel)

CalcOverrideMaps ==
    OverrideMaps \cup { [ k \in {"regulated_mlw"} |-> 24 * Units ] }

\* A route object that was given an alternate_fuel attribute of 3 kg.
WithAlternate(rt) ==
    [ k \in DOMAIN rt \cup {"alternate_fuel"} |->
        IF k = "alternate_fuel" THEN 3 * Units ELSE rt[k] ]

(* src/src/optimization/fuel_calc.py *)

\* calculate_trip_fuel
calculate_trip_fuel(ac, rt, extra_weight) ==
    rt.min_trip_fuel + calculate_additional_burn(ac, extra_weight, rt.distance)

\* calculate_contingency_fuel
calculate_contingency_fuel(trip_fuel, contingency_pct) ==
    MulDiv(trip_fuel, contingency_pct, PctDen)

\* calculate_alternate_fuel: getattr(route, 'alternate_fuel', 0.0)
calculate_alternate_fuel(rt, extra_weight) ==
    IF "alternate_fuel" \in DOMAIN rt THEN rt["alternate_fuel"] ELSE 0

\* calculate_reserve_fuel
calculate_reserve_fuel(rt) == rt.reserve_fuel

\* calculate_total_fuel_requirement
calculate_total_fuel_requirement(ac, rt, extra_weight) ==
    LET trip_fuel == calculate_trip_fuel(ac, rt, extra_weight)
        contingency == calculate_contingency_fuel(trip_fuel, rt.contingency_fuel_pct)
        alternate_fuel == calculate_alternate_fuel(rt, extra_weight)
        reserve_fuel == calculate_reserve_fuel(rt)
    IN  [ trip_fuel |-> trip_fuel,
          contingency_fuel |-> contingency,
          alternate_fuel |-> alternate_fuel,
          reserve_fuel |-> reserve_fuel,
          min_required_fuel |->
              trip_fuel + contingency + alternate_fuel + reserve_fuel ]

\* calculate_fuel_weight_impact
calculate_fuel_weight_impact(ac, rt, cargo_weight, tankering_fuel) ==
    LET fuel_reqs ==
            calculate_total_fuel_requirement(ac, rt, cargo_weight + tankering_fuel)
        additional_burn_tankering ==
            calculate_additional_burn(ac, tankering_fuel, rt.distance)
    IN  [ trip_fuel |-> fuel_reqs.trip_fuel,
          contingency_fuel |-> fuel_reqs.contingency_fuel,
          alternate_fuel |-> fuel_reqs.alternate_fuel,
          reserve_fuel |-> fuel_reqs.reserve_fuel,
          min_required_fuel |-> fuel_reqs.min_required_fuel,
          total_fuel |-> fuel_reqs.min_required_fuel + tankering_fuel,
          additional_burn_tankering |-> additional_burn_tankering,
          effective_tankered_fuel |-> tankering_fuel - additional_burn_tankering ]

\* <<aircraft, route, pax_count, user_overrides>>
CalcScenarios ==
    { <<create_a330_203, create_mle_tfu, px, EmptyDict>> : px \in {237, 600} }
    \cup { <<create_a330_203, create_mle_tfu, 237,
             [ k \in {"block_fuel"} |-> 50000 * Units ]>> }
    \cup { <<SmallAircraft(2500), SmallRoute(10000, 20000, 30000), px, ov>> :
             px \in {2, 12}, ov \in CalcOverrideMaps }
    \cup { <<SmallAircraft(2500), WithAlternate(SmallRoute(10000, 20000, 30000)),
             2, EmptyDict>> }

\* The arguments of the calls, in ticks.
CargoInputs == { 0, 3 * Units, 10000 * Units }
FuelInputs == { 0, 500 * Units, 1000 * Units + 3 }

\* <<required_fuel, trip_fuel>>
LimitInputs ==
    { <<10 * Units, 0>>, <<30 * Units, 2 * Units>>, <<30 * Units, 10 * Units>>,
      <<20 * Units, 10 * Units>>, <<30 * Units, 6 * Units>>,
      <<16 * Units, 2 * Units>>, <<20 * Units, 6 * Units>>,
      <<63000 * Units, 51000 * Units>> }

\* <<uplifted_fuel, price_origin, price_destination, fuel_density,
\*   additional_burn>>
SavingsInputs ==
    { <<1, 6875, 9974, 785, 0>>, <<Units, 6875, 9974, 785, 0>>,
      <<1000 * Units, 6875, 9974, 785, 0>>, <<Units, 10000, 10001, 1000, 0>>,
      <<1000 * Units, 10000, 10001, 1000, 0>>, <<Units, 10000, 5000, 1000, 0>>,
      <<Units, 10000, 10000, 785, 0>>, <<1000 * Units, 6875, 9974, 785, Units>> }

InitCalc ==
    /\ \E sc \in CalcScenarios :
          /\ aircraft = sc[1]
          /\ route = sc[2]
          /\ own_route =
                IF "cargo_revenue_rate" \in DOMAIN sc[4]
                THEN [ sc[2] EXCEPT !.cargo_revenue_rate = sc[4]["cargo_revenue_rate"] ]
                ELSE sc[2]
          /\ snap = own_route
          /\ pax_count = sc[3]
          /\ user_overrides = sc[4]
    /\ constructed = TRUE
    /\ InitCommon

\* What a call leaves alone: everything but ret, the violations field and
\* the results the cache refers to.
CalcUnchanged ==
    UNCHANGED << aircraft, route, own_route, pax_count, user_overrides,
                 constructed, sweep, snap, prev, corrupt, overlap,
                 nopt, nmut, nsweep >>

\* constraints.max_cargo_weight()
MaxCargoWeight ==
    /\ ret' = Ret("max_cargo_weight", "", FALSE, FALSE, NoResult,
                  [ out |-> max_cargo_weight(Opt.constraints) ])
    /\ violations' = violations
    /\ cache' = cache
    /\ CalcUnchanged

\* constraints.validate_solution(cargo, extra_fuel)
ValidateSolution(cargo, extra_fuel) ==
    /\ ret' = Ret("validate_solution", "", FALSE, FALSE, NoResult,
                  [ cargo |-> cargo, extra_fuel |-> extra_fuel,
                    out |-> validate_solution(Opt.constraints, cargo, extra_fuel),
                    float |-> validate_solution_float(Opt.constraints, cargo,
                                                      extra_fuel) ])
    /\ violations' = validate_solution(Opt.constraints, cargo, extra_fuel).violations
    /\ cache' = AssignViolations(cache, violations,
                   validate_solution(Opt.constraints, cargo, extra_fuel).violations)
    /\ CalcUnchanged

\* constraints.get_limiting_tom(required_fuel, trip_fuel)
GetLimitingTom(required_fuel, trip_fuel) ==
    /\ ret' = Ret("get_limiting_tom", "", FALSE, FALSE, NoResult,
                  [ required_fuel |-> required_fuel, trip_fuel |-> trip_fuel,
                    out |-> constraints_get_limiting_tom(Opt.constraints,
                                required_fuel, trip_fuel) ])
    /\ violations' = violations
    /\ cache' = cache
    /\ CalcUnchanged

\* Economics.calculate_tankering_savings and calculate_tankering_factor
TankeringSavings(uplifted_fuel, prices, fuel_density, additional_burn) ==
    /\ ret' = Ret("calculate_tankering_savings", "", FALSE, FALSE, NoResult,
                  [ uplifted_fuel |-> uplifted_fuel,
                    price_origin |-> prices[1],
                    price_destination |-> prices[2],
                    fuel_density |-> fuel_density,
                    additional_burn |-> additional_burn,
                    factor |-> calculate_tankering_factor(prices[1], prices[2]),
                    out |-> calculate_tankering_savings(uplifted_fuel, prices[1],
                                prices[2], fuel_density, additional_burn) ])
    /\ violations' = violations
    /\ cache' = cache
    /\ CalcUnchanged

\* calculate_fuel_weight_impact(aircraft, route, cargo, tankering_fuel)
FuelWeightImpact(cargo, tankering_fuel) ==
    /\ ret' = Ret("calculate_fuel_weight_impact", "", FALSE, FALSE, NoResult,
                  [ cargo |-> cargo, extra_fuel |-> tankering_fuel,
                    out |-> calculate_fuel_weight_impact(aircraft, route, cargo,
                                                         tankering_fuel) ])
    /\ violations' = violations
    /\ cache' = cache
    /\ CalcUnchanged

NextCalc ==
    \/ MaxCargoWeight
    \/ \E c \in CargoInputs, f \in FuelInputs : FuelWeightImpact(c, f)
    \/ \E c \in CargoInputs, f \in FuelInputs : ValidateSolution(c, f)
    \/ \E li \in LimitInputs : GetLimitingTom(li[1], li[2])
    \/ \E si \in SavingsInputs :
          TankeringSavings(si[1], <<si[2], si[3]>>, si[4], si[5])

SpecCalc == InitCalc /\ [][NextCalc]_vars


---------------------------------------------------------------------------
(* Properties of the constraint functions.                                 *)

\* validate_solution(cargo, extra_fuel) has just returned, for cargo >= 0
\* and extra_fuel >= 0, and reported the point valid.
ValidatedValid ==
    /\ ret.op = "validate_solution"
    /\ ret.results.cargo >= 0 /\ ret.results.extra_fuel >= 0
    /\ ret.results.out.valid

\* tom - lm - trip_fuel of the figures the program returns.
BalanceError ==
    ret.results.float.tom - ret.results.float.lm - ret.results.float.trip_fuel

\* C15 as stated: for every cargo >= 0 and extra_fuel >= 0 that
\* validate_solution reports valid, the returned take-off mass minus the
\* returned landing mass equals the returned trip fuel exactly.
C15_MassBalanceExact == ValidatedValid => BalanceError = 0

\* C15, amended: for every such point the returned take-off mass minus the
\* returned landing mass differs from the returned trip fuel by at most half
\* a unit in the last place of the landing mass, and equals it exactly when
\* tom - trip_fuel is a float.
C15_MassBalanceRounded ==
    ValidatedValid
        => /\ 2 * Abs(BalanceError) <= Ulp(ret.results.float.lm)
           /\ (RoundFloat(ret.results.float.tom - ret.results.float.trip_fuel)
                  = ret.results.float.tom - ret.results.float.trip_fuel
               => BalanceError = 0)

\* A valid point whose landing mass was rounded.
C15_Witness == ValidatedValid /\ BalanceError # 0


\* The constraints object with one more passenger, and with a higher MZFW.
OneMorePassenger == [ Opt.constraints EXCEPT !.pax_count = @ + 1 ]
HigherMZFW == [ Opt.constraints EXCEPT !.aircraft.mzfw = @ + Units ]

\* The zero-fuel mass the cargo room is measured from.
zfwBasis ==
    IF "actual_zfw" \in DOMAIN user_overrides
    THEN user_overrides["actual_zfw"]
    ELSE aircraft.mzfw

\* C16: max_cargo_weight() equals max(0, zfwBasis - dryMass - paxCount *
\* stdPaxWeight), zfwBasis being the actual_zfw override if present and the
\* aircraft MZFW otherwise; it is never negative, does not grow with one more
\* passenger, does not shrink with a higher MZFW, and is 25516 kg in the
\* default scenario.
C16_MaxCargoWeight ==
    ret.op = "max_cargo_weight"
        => /\ ret.results.out
                 = Max2(0, zfwBasis - (aircraft.owe + aircraft.variable_load)
                              - pax_count * aircraft.std_pax_weight)
           /\ ret.results.out >= 0
           /\ max_cargo_weight(OneMorePassenger) <= ret.results.out
           /\ max_cargo_weight(HigherMZFW) >= ret.results.out
           /\ DefaultScenario => ret.results.out = 25516 * Units

\* max_cargo_weight() was called with an actual_zfw override, on a load that
\* leaves cargo room.
C16_Witness ==
    /\ ret.op = "max_cargo_weight"
    /\ "actual_zfw" \in DOMAIN user_overrides
    /\ ret.results.out > 0


\* validate_solution(0, 0) has just returned on an Optimizer built with an
\* empty override map, for an aircraft with MLW <= MTOW and MZFW <= MTOW and
\* a route with distance > 0 and a contingency fraction in [0, 1].
BaselineValidated ==
    /\ ret.op = "validate_solution"
    /\ ret.results.cargo = 0 /\ ret.results.extra_fuel = 0
    /\ user_overrides = EmptyDict
    /\ aircraft.mlw <= aircraft.mtow /\ aircraft.mzfw <= aircraft.mtow
    /\ route.distance > 0
    /\ route.contingency_fuel_pct \in 0..PctDen

\* C17 as stated: the baseline point (0, 0) is valid for every such aircraft,
\* route and passenger count.
C17_BaselineAlwaysValid == BaselineValidated => ret.results.out.valid

\* The mass without cargo and fuel, and the least fuel of the route.
BaselineLoad ==
    aircraft.owe + aircraft.variable_load + pax_count * aircraft.std_pax_weight
BaselineFuel ==
    route.min_trip_fuel
        + MulDiv(route.min_trip_fuel, route.contingency_fuel_pct, PctDen)
        + route.reserve_fuel

\* C17, amended: the baseline point (0, 0) is valid exactly when the dry mass
\* with the passengers is within MZFW, the minimum fuel (trip, contingency,
\* reserve) is within the fuel capacity, the two together are within MTOW
\* and, less the trip fuel, within MLW.
C17_BaselineValidIff ==
    BaselineValidated
        => (ret.results.out.valid
              <=> /\ BaselineLoad <= aircraft.mzfw
                  /\ BaselineFuel <= aircraft.fuel_capacity
                  /\ BaselineLoad + BaselineFuel <= aircraft.mtow
                  /\ BaselineLoad + BaselineFuel - route.min_trip_fuel
                        <= aircraft.mlw)

\* A baseline call that reports the point invalid.
C17_Witness == BaselineValidated /\ ~ret.results.out.valid


\* The limits in force: the regulated values of the override map where it
\* has them, the aircraft's otherwise.
EffectiveMTOW ==
    IF "regulated_mtow" \in DOMAIN user_overrides
    THEN user_overrides["regulated_mtow"] ELSE aircraft.mtow
EffectiveMLW ==
    IF "regulated_mlw" \in DOMAIN user_overrides
    THEN user_overrides["regulated_mlw"] ELSE aircraft.mlw
MaxFuelCapacity ==
    IF "block_fuel" \in DOMAIN user_overrides
    THEN user_overrides["block_fuel"] ELSE aircraft.fuel_capacity

\* Kilograms over a limit, 0 when within it.
Excess(mass, limit) == IF mass > limit THEN mass - limit ELSE 0

\* C18: validate_solution reports valid exactly when take-off mass <=
\* effective MTOW, landing mass <= effective MLW, zero-fuel mass <= aircraft
\* MZFW and total fuel <= max fuel capacity; every entry of the violation map
\* is >= 0 and is the mass over the limit; valid holds exactly when the four
\* entries are 0; and the map is the one left in the violations field.
C18_ValidIffFourChecks ==
    ret.op = "validate_solution"
        => LET out == ret.results.out IN
           /\ out.valid <=> /\ out.tom <= EffectiveMTOW
                            /\ out.lm <= EffectiveMLW
                            /\ out.zfm <= aircraft.mzfw
                            /\ out.total_fuel <= MaxFuelCapacity
           /\ DOMAIN out.violations = {"mtow", "mlw", "mzfw", "fuel_capacity"}
           /\ \A k \in DOMAIN out.violations : out.violations[k] >= 0
           /\ out.violations["mtow"] = Excess(out.tom, EffectiveMTOW)
           /\ out.violations["mlw"] = Excess(out.lm, EffectiveMLW)
           /\ out.violations["mzfw"] = Excess(out.zfm, aircraft.mzfw)
           /\ out.violations["fuel_capacity"]
                 = Excess(out.total_fuel, MaxFuelCapacity)
           /\ out.valid <=> \A k \in DOMAIN out.violations : out.violations[k] = 0
           /\ violations = out.violations

\* A point over a regulated MTOW and within the other three limits.
C18_Witness ==
    /\ ret.op = "validate_solution"
    /\ "regulated_mtow" \in DOMAIN user_overrides
    /\ ~ret.results.out.valid
    /\ ret.results.out.violations["mtow"] > 0
    /\ ret.results.out.violations["mlw"] = 0
    /\ ret.results.out.tom <= aircraft.mtow


\* The three ceilings of the take-off mass, in the order of their names.
CeilingNames == <<"MTOW", "MZFW+Fuel", "MLW+TripFuel">>
Ceilings ==
    << aircraft.mtow,
       aircraft.mzfw + ret.results.required_fuel,
       aircraft.mlw + ret.results.trip_fuel >>

\* C19: get_limiting_tom(requiredFuel, tripFuel) returns the least of the
\* ceilings MTOW, MZFW + requiredFuel and MLW + tripFuel with the name of a
\* ceiling that attains it, and of several that attain it the first in the
\* order MTOW, MZFW+Fuel, MLW+TripFuel.
C19_LimitingTom ==
    ret.op = "get_limiting_tom"
        => LET out == ret.results.out IN
           /\ \A i \in 1..3 : out[1] <= Ceilings[i]
           /\ \E i \in 1..3 :
                 /\ CeilingNames[i] = out[2]
                 /\ Ceilings[i] = out[1]
                 /\ \A j \in 1..(i - 1) : Ceilings[j] > out[1]

\* Two ceilings below MTOW are equal and the first of them is named.
C19_Witness ==
    /\ ret.op = "get_limiting_tom"
    /\ Ceilings[2] = Ceilings[3] /\ Ceilings[2] < Ceilings[1]
    /\ ret.results.out[2] = "MZFW+Fuel"


---------------------------------------------------------------------------
(* Properties of the economics functions.                                  *)

\* calculate_tankering_savings has just returned for positive prices with a
\* tankering factor above 1, a positive density, no additional burn and a
\* positive uplift.
SavingsCase ==
    /\ ret.op = "calculate_tankering_savings"
    /\ ret.results.price_origin > 0 /\ ret.results.price_destination > 0
    /\ ret.results.factor[1] > ret.results.factor[2]
    /\ ret.results.fuel_density > 0
    /\ ret.results.additional_burn = 0
    /\ ret.results.uplifted_fuel > 0

\* C20 as stated: in that case the savings are strictly positive.
C20_SavingsPositive == SavingsCase => ret.results.out > 0

\* The liters uplifted, as the function computes them.
UpliftedLiters ==
    MulDiv(ret.results.uplifted_fuel, DensDen, ret.results.fuel_density)

\* C20, amended: in that case the savings are never negative, and they are
\* strictly positive whenever the liters times the price difference come to
\* more than one rounding unit of the result.
C20_SavingsNotNegative ==
    SavingsCase
        => /\ ret.results.out >= 0
           /\ (UpliftedLiters
                  * (ret.results.price_destination - ret.results.price_origin)
                  > PriceDen
               => ret.results.out > 0)

\* Savings that rounding has brought to nothing.
C20_Witness == SavingsCase /\ ret.results.out = 0


---------------------------------------------------------------------------
(* What the strategies return.                                             *)

\* The grid of optimize_grid_search: the cargo of row i and the extra fuel
\* of column j, both counted from 0.
GridCargo(i) == linspace(max_cargo_weight(Opt.constraints), cargo_steps, i)
GridFuel(j) == linspace(max_extra_fuel_grid(Opt), fuel_steps, j)

\* validate_solution accepts the grid point (i, j).
GridValid(i, j) ==
    validate_solution(Opt.constraints, GridCargo(i), GridFuel(j)).valid

\* The total profit of a point, by Economics.calculate_total_profit with the
\* additional burn of the point.
ExactProfit(cargo, extra_fuel) ==
    calculate_total_profit(cargo, SelfRoute.cargo_revenue_rate, extra_fuel,
        SelfRoute.fuel_price_origin, SelfRoute.fuel_price_dest,
        aircraft.fuel_density,
        calculate_additional_burn(aircraft, cargo + extra_fuel,
                                  SelfRoute.distance)).total_profit

\* optimize('grid_search') has just returned a result that is not an ERROR.
GridOptimum ==
    /\ Returned("grid_search")
    /\ ret.result.status = "Optimal solution found"

\* The first row and the first column that carry the returned values.
ReturnedRow ==
    CHOOSE i \in 0..(cargo_steps - 1) :
        /\ GridCargo(i) = ret.result.optimal_cargo
        /\ \A k \in 0..(i - 1) : GridCargo(k) # ret.result.optimal_cargo
ReturnedColumn ==
    CHOOSE j \in 0..(fuel_steps - 1) :
        /\ GridFuel(j) = ret.result.optimal_tankering
        /\ \A k \in 0..(j - 1) : GridFuel(k) # ret.result.optimal_tankering

\* Point (i, j) comes before point (r, c) in row-major order.
RowMajorBefore(i, j, r, c) == i < r \/ (i = r /\ j < c)

\* C21: the result of grid search is a valid point of the grid, its profit is
\* the exact profit of that point, no valid point of the grid has a strictly
\* higher profit, and no valid point with the same profit comes before it in
\* row-major order (cargo outer, extra fuel inner).
C21_GridMaximum ==
    GridOptimum
        => /\ \E i \in 0..(cargo_steps - 1) :
                 GridCargo(i) = ret.result.optimal_cargo
           /\ \E j \in 0..(fuel_steps - 1) :
                 GridFuel(j) = ret.result.optimal_tankering
           /\ GridValid(ReturnedRow, ReturnedColumn)
           /\ ret.result.total_profit
                 = ExactProfit(ret.result.optimal_cargo,
                               ret.result.optimal_tankering)
           /\ \A i \in 0..(cargo_steps - 1), j \in 0..(fuel_steps - 1) :
                 GridValid(i, j)
                     => /\ ExactProfit(GridCargo(i), GridFuel(j))
                              <= ret.result.total_profit
                        /\ (ExactProfit(GridCargo(i), GridFuel(j))
                               = ret.result.total_profit
                            => ~RowMajorBefore(i, j, ReturnedRow, ReturnedColumn))

\* The returned point shares the maximum with a later point of the grid that
\* carries another cargo.
C21_Witness ==
    /\ GridOptimum
    /\ \E i \in 0..(cargo_steps - 1), j \in 0..(fuel_steps - 1) :
          /\ RowMajorBefore(ReturnedRow, ReturnedColumn, i, j)
          /\ GridValid(i, j)
          /\ ExactProfit(GridCargo(i), GridFuel(j)) = ret.result.total_profit
          /\ GridCargo(i) # ret.result.optimal_cargo


\* optimize('linear') has just built and solved its linear program.
LinearSolved == Returned("linear") /\ ret.ran /\ DataPresent

\* C22: every point that satisfies the variable bounds and the four
\* constraints of the linear program is accepted by validate_solution for
\* the same aircraft, route, passenger count and overrides.
C22_ProgramRefinesChecks ==
    LinearSolved
        => \A v \in LPCandidates(Opt) :
              LPFeasible(Opt, v[1], v[2])
                  => validate_solution(Opt.constraints, v[1], v[2]).valid


\* The four constraints of the linear program with 0 <= cargo <=
\* max_cargo_weight() and extra_fuel >= 0, without the upper bound of the
\* extra_fuel variable.
LPConstrainedRegion(o, cargo, extra_fuel) ==
    LET min_fuel_req == total_min_fuel(o.route)
        total_fuel == min_fuel_req + extra_fuel
        total_weight == dom(o.aircraft) + pax_weight_of(o) + cargo + total_fuel
        zero_fuel_weight == dom(o.aircraft) + pax_weight_of(o) + cargo
        trip_fuel_additional == MulDiv(cargo + extra_fuel, burn_factor(o), BurnDen)
        landing_weight ==
            total_weight - (o.route.min_trip_fuel + trip_fuel_additional)
    IN  /\ 0 <= cargo /\ cargo <= max_cargo_weight(o.constraints)
        /\ 0 <= extra_fuel
        /\ total_weight <= o.aircraft.mtow
        /\ zero_fuel_weight <= o.aircraft.mzfw
        /\ landing_weight <= o.aircraft.mlw
        /\ total_fuel <= o.aircraft.fuel_capacity

\* optimize('linear') has just returned the optimum of its program.
LinearOptimum ==
    LinearSolved /\ ret.result.status = "Optimal solution found"

\* C23: the point the linear strategy returns maximises the objective over
\* the whole region of its four constraints with 0 <= cargo <=
\* max_cargo_weight() and extra_fuel >= 0; the upper bound of the extra_fuel
\* variable cuts nothing better off.
C23_FuelBoundExcludesNothing ==
    LinearOptimum
        => \A v \in LPCandidates(Opt) :
              LPConstrainedRegion(Opt, v[1], v[2])
                  => LPObjective(Opt, v[1], v[2])
                        <= LPObjective(Opt, ret.result.optimal_cargo,
                                       ret.result.optimal_tankering)


\* C24: for every result of either strategy that is not an ERROR,
\* total_profit is the total profit Economics.calculate_total_profit gives
\* for (optimal_cargo, optimal_tankering) with the exact additional burn of
\* that point: cargo revenue + tankering savings - burn cost at origin price.
C24_ProfitIsExactProfit ==
    \A m \in Methods :
        (Returned(m) /\ ret.result.status = "Optimal solution found")
            => ret.result.total_profit
                  = ExactProfit(ret.result.optimal_cargo,
                                ret.result.optimal_tankering)


---------------------------------------------------------------------------
(* Sensitivity sweeps and the calls around them.                           *)

\* The last operation to end was a sensitivity_analysis over a non-empty
\* list of values, and it returned its results.
SweepJustReturned ==
    /\ ret.op = "sensitivity_analysis" /\ ~ret.raised
    /\ ret.results # EmptyDict

\* C25: an optimize(m) that follows a returned sensitivity_analysis(parameter,
\* values, m) over a non-empty list returns an optimum for the values the
\* route has now, not a result computed under a swept value.  (After such a
\* sweep the cache has the one key m.)
C25_FreshAfterSweep ==
    [][\A m \in Methods :
          (SweepJustReturned /\ m \in DOMAIN cache /\ OptimizeStep(m))
              => ret'.result \in RunStrategy(Opt, m)]_vars


\* The last operation to end was a sensitivity_analysis of a known parameter
\* that ended with the error of optimize for an unknown method.
SweepFailedInOptimize ==
    /\ ret.op = "sensitivity_analysis" /\ ret.raised
    /\ ret.method \in SweepParameters
    /\ AllIdle

\* C26: when sensitivity_analysis is called with a valid parameter name, a
\* non-empty list and a method that optimize rejects, then after the error
\* the swept field of the route holds the value it had before the call.
C26_RouteRestoredOnError ==
    SweepFailedInOptimize => SelfRoute[ret.method] = snap[ret.method]


---------------------------------------------------------------------------
(* The range of the decision variables.                                    *)

\* C27: every result of either strategy that is not an ERROR has
\* 0 <= optimal_cargo <= max_cargo_weight() and optimal_tankering >= 0, also
\* when the computed upper bound of the extra fuel is negative.
C27_DecisionsInRange ==
    \A m \in Methods :
        (Returned(m) /\ ret.result.status = "Optimal solution found")
            => /\ 0 <= ret.result.optimal_cargo
               /\ ret.result.optimal_cargo <= max_cargo_weight(Opt.constraints)
               /\ ret.result.optimal_tankering >= 0


---------------------------------------------------------------------------
(* The fuel figures of validate_solution and of fuel_calc.                 *)

\* The alternate fuel of the route, 0 if it has none.
AlternateFuel == IF "alternate_fuel" \in DOMAIN route THEN route["alternate_fuel"] ELSE 0

\* C28: validate_solution computes trip_fuel = min trip fuel + burn of
\* (cargo + extra fuel), min_required_fuel = trip fuel + contingency +
\* alternate fuel + reserve and total_fuel = min_required_fuel + extra fuel,
\* and the three figures equal those of calculate_fuel_weight_impact for the
\* same aircraft, route, cargo and extra fuel.
C28_FuelFiguresAgree ==
    ret.op \in {"validate_solution", "calculate_fuel_weight_impact"}
        => LET cargo == ret.results.cargo
               extra_fuel == ret.results.extra_fuel
               v == validate_solution(Opt.constraints, cargo, extra_fuel)
               w == calculate_fuel_weight_impact(aircraft, route, cargo, extra_fuel)
           IN  /\ v.trip_fuel
                     = route.min_trip_fuel
                         + MulDiv(cargo + extra_fuel,
                                  aircraft.additional_burn_factor * route.distance,
                                  BurnDen)
               /\ v.min_required_fuel
                     = v.trip_fuel
                         + MulDiv(v.trip_fuel, route.contingency_fuel_pct, PctDen)
                         + AlternateFuel + route.reserve_fuel
               /\ v.total_fuel = v.min_required_fuel + extra_fuel
               /\ v.trip_fuel = w.trip_fuel
               /\ v.min_required_fuel = w.min_required_fuel
               /\ v.total_fuel = w.total_fuel


---------------------------------------------------------------------------
(* Optimizer.analyze_tradeoff, with the products of its floats.            *)

\* One digit of the long multiplication below: h is <<q, r>> for the digits
\* of n above the last, t the last digit times x.
QuotRemStep(h, t, d) == <<16 * h[1] + (16 * h[2] + t) \div d, (16 * h[2] + t) % d>>

\* <<q, r>> with x * n = q * d + r and 0 <= r < d, for x >= 0, n >= 0 and
\* d > 0, without forming x * n.
RECURSIVE QuotRem(_, _, _)
QuotRem(x, n, d) ==
    IF n = 0 THEN <<0, 0>>
    ELSE QuotRemStep(QuotRem(x, n \div 16, d), (n % 16) * x, d)

\* h = <<q, r>> of a division by d, to the nearest: q or q + 1, a tie to
\* the even one.
NearestOf(h, d) ==
    IF 2 * h[2] > d \/ (2 * h[2] = d /\ h[1] % 2 = 1) THEN h[1] + 1 ELSE h[1]

\* x * n / d for x >= 0, to the nearest multiple of u, a tie to the even one.
NearestQuotient(x, n, d, u) == NearestOf(QuotRem(x, n, d * u), d * u) * u

\* The float nearest to x * n / d, for n >= 0 and d > 0.
RoundQuotient(x, n, d) ==
    IF x < 0
    THEN -NearestQuotient(-x, n, d, Ulp(QuotRem(-x, n, d)[1]))
    ELSE NearestQuotient(x, n, d, Ulp(QuotRem(x, n, d)[1]))

\* The float 1.0 in the unit of the ratios: a ratio i / steps >= 1/16 has
\* all the bits of its significand above this unit.
RatioOne == 2^(SigBits + 3)

\* i / steps
TradeoffRatio(i, steps) == RoundQuotient(RatioOne, i, steps)

\* ratio * x
float_mul_ratio(ratio, x) == RoundQuotient(x, ratio, RatioOne)

\* float('-inf')
NegInf == -(2^30)

\* Variant of TradeoffIndices without the last index.
TradeoffIndicesShort(steps) == 0 .. (steps - 1)

\* analyze_tradeoff: range(steps + 1)
TradeoffIndices(steps) == 0 .. steps

\* analyze_tradeoff: max_payload
max_payload(o) ==
    float_sub(float_sub(o.aircraft.mzfw,
                        float_add(o.aircraft.owe, o.aircraft.variable_load)),
              RoundFloat(o.pax_count * o.aircraft.std_pax_weight))

\* analyze_tradeoff: the entry appended for ratio i / steps.
TradeoffEntry(o, steps, i) ==
    LET ratio == TradeoffRatio(i, steps)
        cargo_val == float_mul_ratio(ratio, max_payload(o))
        fuel_val == float_mul_ratio(float_sub(RatioOne, ratio), max_payload(o))
        validation == validate_solution(o.constraints, cargo_val, fuel_val)
        add_burn == calculate_additional_burn(o.aircraft, cargo_val + fuel_val,
                                              o.route.distance)
        econ_calc ==
            calculate_total_profit(cargo_val, o.route.cargo_revenue_rate,
                fuel_val, o.route.fuel_price_origin, o.route.fuel_price_dest,
                o.aircraft.fuel_density, add_burn)
    IN  IF validation.valid
        THEN IF ~MissingCargoRate(o) /\ ~MissingFuelPrice(o)
             THEN [ ratio |-> ratio, cargo |-> cargo_val, extra_fuel |-> fuel_val,
                    total_profit |-> econ_calc.total_profit,
                    cargo_revenue |-> econ_calc.cargo_revenue,
                    fuel_savings |-> econ_calc.tankering_savings,
                    additional_burn |-> add_burn, valid |-> TRUE ]
             ELSE [ ratio |-> ratio, cargo |-> cargo_val, extra_fuel |-> fuel_val,
                    total_profit |-> 0, cargo_revenue |-> 0, fuel_savings |-> 0,
                    additional_burn |-> add_burn, valid |-> TRUE ]
        ELSE [ ratio |-> ratio, cargo |-> cargo_val, extra_fuel |-> fuel_val,
               total_profit |-> NegInf, cargo_revenue |-> 0, fuel_savings |-> 0,
               additional_burn |-> 0, valid |-> FALSE,
               violations |-> validation.violations ]

\* Optimizer.analyze_tradeoff: the list it returns.
analyze_tradeoff(o, steps) ==
    [ k \in 1 .. Cardinality(TradeoffIndices(steps)) |->
        TradeoffEntry(o, steps, k - 1) ]

\* The dict left in self.constraints.violations by analyze_tradeoff: that of
\* its last validate_solution call.
ViolationsAfterTradeoff(o, steps) ==
    LET last == analyze_tradeoff(o, steps)[Len(analyze_tradeoff(o, steps))]
    IN  validate_solution(o.constraints, last.cargo, last.extra_fuel).violations

TradeoffSteps == {1, 3, 10}

\* The caller calls analyze_tradeoff(steps).
AnalyzeTradeoff(steps) ==
    /\ constructed /\ AllIdle
    /\ ret' = Ret("analyze_tradeoff", "", FALSE, FALSE, NoResult,
                  [ steps |-> steps, out |-> analyze_tradeoff(Opt, steps) ])
    /\ violations' = ViolationsAfterTradeoff(Opt, steps)
    /\ cache' = AssignViolations(cache, violations,
                                 ViolationsAfterTradeoff(Opt, steps))
    /\ CalcUnchanged

NextEval ==
    \/ \E m \in Methods : Optimize(m)
    \/ \E c \in CargoInputs, f \in FuelInputs : ValidateSolution(c, f)
    \/ \E st \in TradeoffSteps : AnalyzeTradeoff(st)

\* A constructed Optimizer whose caller optimizes, validates points and
\* analyzes the tradeoff in any order.
SpecEval == InitCalc /\ [][NextEval]_vars


---------------------------------------------------------------------------
(* Effects of validate_solution and analyze_tradeoff.                      *)

\* The constraints object of a fresh evaluator of the same aircraft, route,
\* passenger count and overrides.
FreshConstraints ==
    [ aircraft |-> aircraft, route |-> route, pax_count |-> pax_count,
      user_overrides |-> user_overrides ]

---------------------------------------------------------------------------
(* The list analyze_tradeoff returns.                                      *)

\* P: MZFW - dry operating mass - passenger weight.
Payload == aircraft.mzfw - dom(aircraft) - pax_count * aircraft.std_pax_weight

\* What the claims below say of entry k of the list out that
\* analyze_tradeoff(steps) returned, but for the sum of its two masses.
TradeoffEntryAsStated(out, steps, k) ==
    LET e == out[k]
        v == validate_solution(FreshConstraints, e.cargo, e.extra_fuel)
    IN  /\ e.ratio = TradeoffRatio(k - 1, steps)
        /\ k < Len(out) => e.ratio < out[k + 1].ratio
        /\ e.cargo = float_mul_ratio(e.ratio, Payload)
        /\ e.extra_fuel = float_mul_ratio(float_sub(RatioOne, e.ratio), Payload)
        /\ e.valid <=> v.valid
        /\ e.valid
             => /\ "violations" \notin DOMAIN e
                /\ e.total_profit
                     = IF DataPresent THEN ExactProfit(e.cargo, e.extra_fuel) ELSE 0
                /\ e.cargo_revenue
                     = IF DataPresent
                       THEN calculate_cargo_revenue(e.cargo, SelfRoute.cargo_revenue_rate)
                       ELSE 0
                /\ e.total_profit
                     = e.cargo_revenue + e.fuel_savings
                         - (IF DataPresent
                            THEN MulDiv(MulDiv(e.additional_burn, DensDen,
                                               aircraft.fuel_density),
                                        SelfRoute.fuel_price_origin, PriceDen)
                            ELSE 0)
        /\ ~e.valid
             => /\ "violations" \in DOMAIN e
                /\ e.violations = v.violations
                /\ e.total_profit = NegInf

\* analyze_tradeoff has just returned.
TradeoffReturned == ret.op = "analyze_tradeoff"

\* The list has steps + 1 entries as stated, each with cargo + extra_fuel = P.
TradeoffExact ==
    TradeoffReturned
        => /\ Len(ret.results.out) = ret.results.steps + 1
           /\ \A k \in 1 .. Len(ret.results.out) :
                 /\ TradeoffEntryAsStated(ret.results.out, ret.results.steps, k)
                 /\ ret.results.out[k].cargo + ret.results.out[k].extra_fuel = Payload

\* The same, each with cargo + extra_fuel within one unit in the last place
\* of P.
TradeoffRounded ==
    TradeoffReturned
        => /\ Len(ret.results.out) = ret.results.steps + 1
           /\ \A k \in 1 .. Len(ret.results.out) :
                 /\ TradeoffEntryAsStated(ret.results.out, ret.results.steps, k)
                 /\ Abs(ret.results.out[k].cargo + ret.results.out[k].extra_fuel
                          - Payload) <= Ulp(Payload)

\* C30 as stated: analyze_tradeoff(steps), steps >= 1, returns steps + 1
\* entries with the ratios i / steps in ascending order, cargo = ratio * P
\* and extra_fuel = (1 - ratio) * P with cargo + extra_fuel = P, valid
\* exactly when validate_solution accepts the point, a valid entry with its
\* profit breakdown and an invalid one with the violation map of its point,
\* and the call leaves the cache unchanged.
C30_TradeoffSumExact ==
    /\ [][ret'.op = "analyze_tradeoff" => cache' = cache]_vars
    /\ []TradeoffExact

\* C30, amended: the same with the two products as the program rounds them:
\* cargo + extra_fuel differs from P by at most one unit in the last place
\* of P.
C30_TradeoffSumRounded ==
    /\ [][ret'.op = "analyze_tradeoff" => cache' = cache]_vars
    /\ []TradeoffRounded

\* analyze_tradeoff returned a list with a valid and an invalid entry and an
\* entry whose two masses do not add up to P, while the cache held a result.
C30_Witness ==
    /\ TradeoffReturned
    /\ cache # EmptyDict
    /\ \E k \in 1 .. Len(ret.results.out) : ret.results.out[k].valid
    /\ \E k \in 1 .. Len(ret.results.out) : ~ret.results.out[k].valid
    /\ \E k \in 1 .. Len(ret.results.out) :
          ret.results.out[k].cargo + ret.results.out[k].extra_fuel # Payload

====
